---- MODULE Spec2Model ----
(***************************************************************************)
(* A model of the fetch-and-linearize engine of the hn client              *)
(* (src/src/api/client.rs): the tree linearizer (build_tree,               *)
(* build_comment_tree, order_cached_comments, find_parent_id), the         *)
(* breadth-first thread traversal with its write-through cache             *)
(* (HnClient::fetch_comments_flat) and the story fetch                      *)
(* (HnClient::fetch_stories, HnClient::fetch_stories_by_ids).              *)
(*                                                                         *)
(* An HnItem is modelled by the fields the engine reads: id, kids,         *)
(* deleted, dead.  A Comment is modelled by id, depth, kids.  Option<T>    *)
(* is a sequence of length 0 (None) or 1 (Some).                           *)
(***************************************************************************)
EXTENDS Integers, Sequences, FiniteSets, TLC

VARIABLES
    \* --- linearizer harness: the arguments of build_comment_tree and what
    \*     the fresh path, the store and the cache path made of them
    tpc,              \* "input" | "fresh" | "stored" | "cached"
    t_items,          \* items: HashMap<u64, HnItem>
    t_attempted,      \* attempted: HashSet<u64>
    t_root_kids,      \* root_kids: &[u64]
    fresh_comments,   \* build_comment_tree's result
    t_rows,           \* the rows save_comments wrote for the story
    cached_comments,  \* order_cached_comments' result
    \* --- HnClient::fetch_comments_flat
    pc,               \* "idle" | "start" | "cache_read" | "loop" | "join" |
                      \* "fanin" | "save" | "done"
    story_kids,       \* story.kids
    max_depth,        \* max_depth
    force_refresh,    \* force_refresh
    has_storage,      \* self.storage.is_some()
    upstream,         \* the items the remote API has served, by id
    cache,            \* the store's thread entry of the story: None | Some(rows)
    items,            \* items: HashMap<u64, HnItem>
    attempted,        \* attempted: HashSet<u64>
    to_fetch,         \* to_fetch: Vec<u64>
    depth,            \* depth
    results,          \* join_all's slots, one per position of to_fetch
    inflight,         \* the fetch_item requests issued and not yet completed
    comments,         \* comments (build_comment_tree's result)
    fetch_log,        \* every fetch_item request of this call: <<id, level>>
    fetch_outcomes,   \* how the requests of this call ended: <<id, "ok" | "err">>
    read_outcome,     \* what get_fresh_comments returned in this call
    write_outcome,    \* what save_comments returned in this call
    result,           \* what the call returned
    calls,            \* the number of calls started
    cache_age,        \* the time passed since the thread entry was saved
    \* --- HnClient::fetch_stories / fetch_stories_by_ids
    spc,              \* "idle" | "feed" | "read" | "fetch" | "join" | "save" | "done"
    s_page,           \* page
    s_listing,        \* ids: what fetch_feed_ids returned
    s_force,          \* force_refresh
    s_has_storage,    \* self.storage.is_some()
    s_store,          \* the ids the store holds a fresh story for
    s_feed,           \* what fetch_feed_ids returned: "none" | "ok" | "err"
    s_ids,            \* ids: the slice handed to fetch_stories_by_ids
    s_idx,            \* the position of the cache-read or save loop
    s_stories,        \* stories
    s_to_fetch,       \* to_fetch
    s_results,        \* join_all's slots, one per position of to_fetch
    s_fetched,        \* fetched
    s_fetch_log,      \* every fetch_item request of the call
    s_read_log,       \* every get_fresh_story call: <<id, outcome>>
    s_save_log,       \* every save_story call: <<id, outcome>>
    s_result,         \* what the call returned
    \* --- storage::migrations::run_migrations
    mpc,              \* "idle" | "start" | "loop" | "done"
    m_has_schema,     \* the _schema table exists
    m_schema,         \* the version column of the rows of _schema (primary key)
    m_applied,        \* the versions whose SQL was executed on the database, in order
    m_current,        \* current
    m_idx,            \* the position of the loop in MIGRATIONS
    m_before,         \* the rows of _schema when the run began
    m_run_applied,    \* the versions whose SQL this run executed, in order
    m_result,         \* what the run returned: "none" | "ok" | "err"
    m_prev_result,    \* what the run before returned
    m_error,          \* the error the run returned, if any
    m_prev_error,     \* the error the run before returned, if any
    m_runs,           \* the number of runs started
    \* --- views::tree::compute_tree_context
    cpc,              \* "idle" | "input" | "done"
    c_depths,         \* the depths of comments
    c_visible,        \* visible_indices (positions from 1)
    c_context,        \* the result
    \* --- main::run_tui
    rpc,              \* "idle" | "theme" | "init" | "load" | "draw" | "event" | "restore" | "returned"
    r_raw,            \* the terminal is in raw mode
    r_alt,            \* the alternate screen and mouse capture are on
    r_init_ok,        \* tui::init returned Ok
    r_restore_called, \* tui::restore was called
    r_quit,           \* app.should_quit
    r_event,          \* the event the last events.next() returned
    r_frames,         \* the number of frames drawn
    r_result,         \* what run_tui returned: "none" | "ok" | "err"
    \* --- tui::EventHandler::next
    epc,              \* "idle" | "waiting" | "returned"
    e_polled,         \* what the event stream yielded during the call, in order
    e_ticked,         \* the tick branch of the select! completed
    e_returned,       \* the Event returned
    e_calls           \* the number of calls

treeVars == <<tpc, t_items, t_attempted, t_root_kids, fresh_comments, t_rows,
              cached_comments>>

fetchVars == <<pc, story_kids, max_depth, force_refresh, has_storage, upstream,
               cache, items, attempted, to_fetch, depth, results, inflight,
               comments, fetch_log, fetch_outcomes, read_outcome, write_outcome,
               result, calls, cache_age>>

storyVars == <<spc, s_page, s_listing, s_force, s_has_storage, s_store, s_feed, s_ids,
               s_idx, s_stories, s_to_fetch, s_results, s_fetched, s_fetch_log,
               s_read_log, s_save_log, s_result>>

migVars == <<mpc, m_has_schema, m_schema, m_applied, m_current, m_idx, m_before,
             m_run_applied, m_result, m_prev_result, m_error, m_prev_error,
             m_runs>>

ctxVars == <<cpc, c_depths, c_visible, c_context>>

tuiVars == <<rpc, r_raw, r_alt, r_init_ok, r_restore_called, r_quit, r_event,
             r_frames, r_result>>

evVars == <<epc, e_polled, e_ticked, e_returned, e_calls>>

uiVars == <<tuiVars, evVars>>

sideVars == <<migVars, ctxVars, uiVars>>

vars == <<treeVars, fetchVars, storyVars, sideVars>>

-----------------------------------------------------------------------------
(* Bounds of the model *)

\* the total number of child references (root list plus all kids lists) of
\* an exhaustive input
MaxRefs == 4

\* the longest root child list of a traversal
MaxRoots == 2
\* the longest children array the item gateway returns
MaxKids == 2
\* the total number of child references (root list plus the children arrays
\* of the items the gateway has returned) of a traversal
MaxUpRefs == 3
\* the largest depth bound a caller passes
MaxDepthArg == 2
\* the number of fetch_comments_flat calls of one run
MaxCalls == 2
\* the longest feed listing
MaxFeed == 3
\* the largest page index a caller passes
MaxPage == 1

\* the largest depth bound of the seven-comment thread's traversal
MaxScenarioDepth == 4

\* the largest depth stored with a record of a drawn thread entry, and the
\* total number of child references of a drawn entry and its root list
MaxStoredDepth == 2
MaxStoredRefs == 3

\* the longest time that passes after a thread entry was saved
MaxAge == 2

\* the number of runs of run_migrations on one database
MaxRuns == 3

\* the longest feed listing of the paging model
MaxListing == 65

\* the largest page asked of the paging model
MaxPageArg == 3

\* the number of comments given to compute_tree_context
MaxCtxLen == 3

\* the number of visible indices given to compute_tree_context
MaxVisible == 3

\* the deepest comment given to compute_tree_context
MaxCtxDepth == 2

\* the identifiers of the model
Ids == {1, 2, 3}

-----------------------------------------------------------------------------
(* Sequence helpers *)

Range(s) == {s[i] : i \in 1..Len(s)}

\* a walk that pushes in the given order (the `.rev()` calls left out)
Reverse_identity(s) == s

Reverse(s) == [i \in 1..Len(s) |-> s[Len(s) - i + 1]]

SeqsUpTo(S, n) == UNION {[1..k -> S] : k \in 0..n}

\* Vec::contains
Contains(s, x) == \E i \in 1..Len(s) : s[i] = x

\* a removal that leaves childless entries in the map
MapRemove_keep_leaves(m, k) ==
    IF m[k].kids = <<>> THEN m ELSE [x \in (DOMAIN m) \ {k} |-> m[x]]

\* the map without key k (HashMap::remove)
MapRemove(m, k) == [x \in (DOMAIN m) \ {k} |-> m[x]]

None == <<>>
Some(x) == <<x>>

-----------------------------------------------------------------------------
(* Records *)

\* make_comment_item / an HnItem as the engine sees it
HnItem(id, kids, deleted, dead) ==
    [id |-> id, kids |-> kids, deleted |-> deleted, dead |-> dead]

\* Comment::from_item: the projection of an item to a Comment with the depth
\* carried from the walk; always Some
from_item(item, d) ==
    Some([id |-> item.id, depth |-> d, kids |-> item.kids])

\* StorableComment::from_comment: the persisted record shape
\* (id, root_scope_id, parent_id, ..., children_ids_ordered, depth)
from_comment(c, story_id, parent_id) ==
    [id |-> c.id, story_id |-> story_id, parent_id |-> parent_id,
     kids |-> c.kids, depth |-> c.depth]

\* impl From<StorableComment> for Comment: the scope and parent are dropped
into_comment(row) == [id |-> row.id, depth |-> row.depth, kids |-> row.kids]

-----------------------------------------------------------------------------
(* The tree linearizer *)

\* a parent lookup that takes the record just before comment_id in the
\* sequence for its parent
find_parent_id_preceding(cs, comment_id) ==
    LET at == {i \in 2..Len(cs) : cs[i].id = comment_id}
    IN IF at = {} THEN None
       ELSE Some(cs[(CHOOSE i \in at : \A j \in at : i <= j) - 1].id)

\* find_parent_id: the id of the first comment whose kids contain comment_id
find_parent_id(cs, comment_id) ==
    LET hits == {i \in 1..Len(cs) : Contains(cs[i].kids, comment_id)}
    IN IF hits = {} THEN None
       ELSE Some(cs[CHOOSE i \in hits : \A j \in hits : i <= j].id)

\* a to_comment closure that counts the root's replies as depth 1
ToComment_depth_plus_one(f, item, d) ==
    IF f = "from_item" THEN from_item(item, d + 1) ELSE Some(item)

\* a to_comment closure that yields no record for an item with children
ToComment_drops_parents(f, item, d) ==
    IF f = "from_item"
    THEN IF item.kids # <<>> THEN None ELSE from_item(item, d)
    ELSE Some(item)

\* the to_comment closure of build_tree: Comment::from_item on the fresh
\* path, |c, _depth| Some(c) on the cache path
ToComment(f, item, d) ==
    IF f = "from_item" THEN from_item(item, d) ELSE Some(item)

\* the loop over a queue in the place of the stack: the oldest entry is
\* taken first
RECURSIVE build_tree_loop_fifo(_, _, _, _)
build_tree_loop_fifo(its, stack, out, f) ==
    IF stack = <<>> THEN out
    ELSE LET id == stack[1][1]
             d == stack[1][2]
             rest == SubSeq(stack, 2, Len(stack))
         IN IF id \in DOMAIN its
            THEN LET item == its[id]
                     rk == Reverse(item.kids)
                     pushed == [i \in 1..Len(rk) |-> <<rk[i], d + 1>>]
                 IN build_tree_loop_fifo(MapRemove(its, id), rest \o pushed,
                                         out \o ToComment(f, item, d), f)
            ELSE build_tree_loop_fifo(its, rest, out, f)

\* the loop pushing the children at their parent's depth
RECURSIVE build_tree_loop_flat(_, _, _, _)
build_tree_loop_flat(its, stack, out, f) ==
    IF stack = <<>> THEN out
    ELSE LET id == stack[Len(stack)][1]
             d == stack[Len(stack)][2]
             rest == SubSeq(stack, 1, Len(stack) - 1)
         IN IF id \in DOMAIN its
            THEN LET item == its[id]
                     rk == Reverse(item.kids)
                     pushed == [i \in 1..Len(rk) |-> <<rk[i], d>>]
                 IN build_tree_loop_flat(MapRemove(its, id), rest \o pushed,
                                         out \o ToComment(f, item, d), f)
            ELSE build_tree_loop_flat(its, rest, out, f)

\* one pop of build_tree's `while let Some((id, depth)) = stack.pop()` loop;
\* the stack is a Vec, its top the last element
RECURSIVE build_tree_loop(_, _, _, _)
build_tree_loop(its, stack, out, f) ==
    IF stack = <<>> THEN out
    ELSE LET id == stack[Len(stack)][1]
             d == stack[Len(stack)][2]
             rest == SubSeq(stack, 1, Len(stack) - 1)
         IN IF id \in DOMAIN its
            THEN LET item == its[id]
                     rk == Reverse(item.kids)
                     pushed == [i \in 1..Len(rk) |-> <<rk[i], d + 1>>]
                 IN build_tree_loop(MapRemove(its, id), rest \o pushed,
                                    out \o ToComment(f, item, d), f)
            ELSE build_tree_loop(its, rest, out, f)

\* build_tree with the `.rev()` of line 221 left out
build_tree_roots_unreversed(its, root_kids, f) ==
    build_tree_loop(its, [i \in 1..Len(root_kids) |-> <<root_kids[i], 0>>], <<>>, f)

build_tree(its, root_kids, f) ==
    LET rr == Reverse(root_kids)
    IN build_tree_loop(its, [i \in 1..Len(rr) |-> <<rr[i], 0>>], <<>>, f)

\* the retain() predicate without the pre-filter: every kid is kept
KeepKid_all(kid_id, att, present) == TRUE

\* the retain() predicate keeping only the kids that were fetched
KeepKid_present_only(kid_id, att, present) == kid_id \in present

\* the retain() predicate of build_comment_tree
KeepKid(kid_id, att, present) ==
    kid_id \notin att \/ kid_id \in present

build_comment_tree(its, att, root_kids) ==
    LET present == DOMAIN its
        keep(kid_id) == KeepKid(kid_id, att, present)
        filtered == [id \in present |->
                        [its[id] EXCEPT !.kids = SelectSeq(@, keep)]]
    IN build_tree(filtered, root_kids, "from_item")

\* the elements of a finite set of records, by ascending id
RECURSIVE SortById(_)
SortById(S) ==
    IF S = {} THEN <<>>
    ELSE LET m == CHOOSE x \in S : \A y \in S : x.id <= y.id
         IN <<m>> \o SortById(S \ {m})

\* order_cached_comments returning the rows as the store lists them, by id,
\* without the walk from root_kids
order_cached_comments_storage_order(cached, root_kids) == SortById(cached)

\* order_cached_comments with a closure that takes the depth of the walk
\* (|c, depth| Some(Comment { depth, ..c }))
order_cached_comments_walk_depth(cached, root_kids) ==
    LET by_id == [id \in {c.id : c \in cached} |->
                     CHOOSE c \in cached : c.id = id]
    IN build_tree(by_id, root_kids, "from_item")

\* order_cached_comments: by_id is keyed by the comment's own id
order_cached_comments(cached, root_kids) ==
    LET by_id == [id \in {c.id : c \in cached} |->
                     CHOOSE c \in cached : c.id = id]
    IN build_tree(by_id, root_kids, "identity")

-----------------------------------------------------------------------------
(* The store, thread scope *)

\* the scope key of the harness's story
StoryId == 12345

\* save_comments(story_id, rows): the rows of the scope are replaced
SaveRows(cs, story_id) ==
    {from_comment(cs[i], story_id, find_parent_id(cs, cs[i].id))
        : i \in 1..Len(cs)}

\* get_comments(story_id) followed by .into(): the rows of the scope as Comments
LoadRows(rows, story_id) ==
    {into_comment(r) : r \in {x \in rows : x.story_id = story_id}}

-----------------------------------------------------------------------------
(* Inputs of the linearizer harness *)

\* all maps from the ids of S to kids lists over Kid, with at most b
\* references in total
RECURSIVE KidMaps(_, _, _)
KidMaps(S, Kid, b) ==
    IF S = {} THEN {<<>>}
    ELSE LET x == CHOOSE y \in S : TRUE
         IN UNION {{(x :> k) @@ m : m \in KidMaps(S \ {x}, Kid, b - Len(k))}
                      : k \in SeqsUpTo(Kid, b)}

ItemsOf(m) == [id \in DOMAIN m |-> HnItem(id, m[id], FALSE, FALSE)]

\* the inputs of the unit tests of client.rs
ScenarioKids ==
    << (1 :> <<2, 3>>) @@ (2 :> <<>>),
       (1 :> <<999>>),
       (1 :> <<2, 3>>) @@ (2 :> <<4, 5>>) @@ (3 :> <<6>>) @@ (4 :> <<>>)
           @@ (5 :> <<>>) @@ (6 :> <<7>>) @@ (7 :> <<>>),
       (10 :> <<11>>) @@ (11 :> <<>>) @@ (20 :> <<21>>) @@ (21 :> <<22>>)
           @@ (22 :> <<>>) >>

ScenarioInputs ==
    { [items |-> ItemsOf(ScenarioKids[1]), attempted |-> {2, 3}, root_kids |-> <<1>>],
      [items |-> ItemsOf(ScenarioKids[2]), attempted |-> {999}, root_kids |-> <<1>>],
      [items |-> ItemsOf(ScenarioKids[2]), attempted |-> {}, root_kids |-> <<1>>],
      [items |-> ItemsOf(ScenarioKids[3]), attempted |-> 1..7, root_kids |-> <<1>>],
      [items |-> ItemsOf(ScenarioKids[4]), attempted |-> {10, 11, 20, 21, 22},
       root_kids |-> <<10, 20>>] }

-----------------------------------------------------------------------------
(* The linearizer harness: fresh path, persist, cache path *)

\* exhaustively, every input within the bounds
InitExhaustive ==
    /\ t_root_kids \in SeqsUpTo(Ids, MaxRefs)
    /\ t_attempted \in SUBSET Ids
    /\ \E p \in SUBSET Ids :
          \E m \in KidMaps(p, Ids, MaxRefs - Len(t_root_kids)) :
             t_items = ItemsOf(m)

InitScenario ==
    \E inp \in ScenarioInputs :
       /\ t_items = inp.items
       /\ t_attempted = inp.attempted
       /\ t_root_kids = inp.root_kids

\* the variables of fetch_comments_flat while no call is modelled
FetchIdle ==
    /\ pc = "idle"
    /\ story_kids = <<>>
    /\ max_depth = 0
    /\ force_refresh = FALSE
    /\ has_storage = FALSE
    /\ upstream = <<>>
    /\ cache = None
    /\ items = <<>>
    /\ attempted = {}
    /\ to_fetch = <<>>
    /\ depth = 0
    /\ results = <<>>
    /\ inflight = {}
    /\ comments = <<>>
    /\ fetch_log = <<>>
    /\ fetch_outcomes = {}
    /\ read_outcome = "none"
    /\ write_outcome = "none"
    /\ result = [st |-> "none", comments |-> <<>>]
    /\ calls = 0
    /\ cache_age = 0

\* the variables of fetch_stories while no call is modelled
StoriesIdle ==
    /\ spc = "idle"
    /\ s_page = 0
    /\ s_listing = <<>>
    /\ s_force = FALSE
    /\ s_has_storage = FALSE
    /\ s_store = {}
    /\ s_feed = "none"
    /\ s_ids = <<>>
    /\ s_idx = 0
    /\ s_stories = <<>>
    /\ s_to_fetch = <<>>
    /\ s_results = <<>>
    /\ s_fetched = <<>>
    /\ s_fetch_log = <<>>
    /\ s_read_log = <<>>
    /\ s_save_log = <<>>
    /\ s_result = [st |-> "none", stories |-> <<>>]

\* the variables of run_migrations while no run is modelled
MigIdle ==
    /\ mpc = "idle"
    /\ m_has_schema = FALSE
    /\ m_schema = {}
    /\ m_applied = <<>>
    /\ m_current = 0
    /\ m_idx = 0
    /\ m_before = {}
    /\ m_run_applied = <<>>
    /\ m_result = "none"
    /\ m_prev_result = "none"
    /\ m_error = <<>>
    /\ m_prev_error = <<>>
    /\ m_runs = 0

\* the variables of run_tui while it is not run
TuiIdle ==
    /\ rpc = "idle"
    /\ r_raw = FALSE
    /\ r_alt = FALSE
    /\ r_init_ok = FALSE
    /\ r_restore_called = FALSE
    /\ r_quit = FALSE
    /\ r_event = "none"
    /\ r_frames = 0
    /\ r_result = "none"

\* the variables of EventHandler::next while it is not called
EvIdle ==
    /\ epc = "idle"
    /\ e_polled = <<>>
    /\ e_ticked = FALSE
    /\ e_returned = "none"
    /\ e_calls = 0

\* the variables of compute_tree_context while it is not run
CtxIdle ==
    /\ cpc = "idle"
    /\ c_depths = <<>>
    /\ c_visible = <<>>
    /\ c_context = <<>>

\* the variables of the linearizer harness while it is not run
TreeIdle ==
    /\ tpc = "idle"
    /\ t_items = <<>>
    /\ t_attempted = {}
    /\ t_root_kids = <<>>
    /\ fresh_comments = <<>>
    /\ t_rows = {}
    /\ cached_comments = <<>>

InitTree ==
    /\ MigIdle /\ CtxIdle /\ TuiIdle /\ EvIdle
    /\ tpc = "input"
    /\ (InitExhaustive \/ InitScenario)
    /\ fresh_comments = <<>>
    /\ t_rows = {}
    /\ cached_comments = <<>>
    /\ FetchIdle
    /\ StoriesIdle

\* let fresh_comments = build_comment_tree(items, &attempted, &story_kids)
BuildFresh ==
    /\ tpc = "input"
    /\ fresh_comments' = build_comment_tree(t_items, t_attempted, t_root_kids)
    /\ tpc' = "fresh"
    /\ UNCHANGED <<t_items, t_attempted, t_root_kids, t_rows, cached_comments>>
    /\ UNCHANGED <<fetchVars, storyVars, sideVars>>

\* storage.save_comments(story_id, &storable)
Persist ==
    /\ tpc = "fresh"
    /\ t_rows' = SaveRows(fresh_comments, StoryId)
    /\ tpc' = "stored"
    /\ UNCHANGED <<t_items, t_attempted, t_root_kids, fresh_comments, cached_comments>>
    /\ UNCHANGED <<fetchVars, storyVars, sideVars>>

\* storage.get_comments(story_id), then order_cached_comments
LoadCached ==
    /\ tpc = "stored"
    /\ cached_comments' = order_cached_comments(LoadRows(t_rows, StoryId), t_root_kids)
    /\ tpc' = "cached"
    /\ UNCHANGED <<t_items, t_attempted, t_root_kids, fresh_comments, t_rows>>
    /\ UNCHANGED <<fetchVars, storyVars, sideVars>>

\* the cache path alone: the store holds any thread entry (at most one row
\* per id, any children arrays, any stored depths) and the story any child
\* list; parent_id is not read by the cache path
InitStoredRows ==
    /\ MigIdle /\ CtxIdle /\ TuiIdle /\ EvIdle
    /\ FetchIdle
    /\ StoriesIdle
    /\ tpc = "stored"
    /\ t_items = <<>>
    /\ t_attempted = {}
    /\ fresh_comments = <<>>
    /\ cached_comments = <<>>
    /\ t_root_kids \in SeqsUpTo(Ids, MaxStoredRefs)
    /\ \E p \in SUBSET Ids :
          \E m \in KidMaps(p, Ids, MaxStoredRefs - Len(t_root_kids)) :
             \E dm \in [p -> 0..MaxStoredDepth] :
                t_rows = {from_comment([id |-> i, depth |-> dm[i], kids |-> m[i]],
                                       StoryId, None) : i \in p}

SpecReorder == InitStoredRows /\ [][LoadCached]_vars

NextTree == BuildFresh \/ Persist \/ LoadCached

SpecTree == InitTree /\ [][NextTree]_vars

-----------------------------------------------------------------------------
(* HnClient::fetch_comments_flat *)

\* a tombstone test that forgets the dead flag
Tombstoned_deleted_only(item) == item.deleted

\* item.deleted.unwrap_or(false) || item.dead.unwrap_or(false)
Tombstoned(item) == item.deleted \/ item.dead

NoItem == HnItem(0, <<>>, FALSE, FALSE)
Pending == [st |-> "pending", item |-> NoItem]
Err == [st |-> "err", item |-> NoItem]
Ok(item) == [st |-> "ok", item |-> item]

\* the items the remote API can hold for id: any children array, live,
\* deleted or dead
UpstreamItems(id) ==
    {HnItem(id, k, t = "deleted", t = "dead")
        : k \in SeqsUpTo(Ids, MaxKids), t \in {"live", "deleted", "dead"}}

RECURSIVE SumKids(_, _)
SumKids(m, S) ==
    IF S = {} THEN 0
    ELSE LET x == CHOOSE y \in S : TRUE
         IN Len(m[x].kids) + SumKids(m, S \ {x})

\* child references of the traversal's input: the root list and the
\* children arrays served so far
UpRefs(up, roots) == Len(roots) + SumKids(up, DOMAIN up)

\* FoldResult with a retry: a failed id is put on the next frontier again
FoldResult_retry(acc, id, r, descend) ==
    LET att1 == acc.attempted \cup {id}
    IN IF r.st = "ok"
       THEN IF Tombstoned(r.item)
            THEN [acc EXCEPT !.attempted = att1]
            ELSE [items |-> (id :> r.item) @@ acc.items,
                  attempted |-> att1,
                  next_fetch |-> IF descend THEN acc.next_fetch \o r.item.kids
                                            ELSE acc.next_fetch]
       ELSE [acc EXCEPT !.attempted = att1,
                        !.next_fetch = Append(acc.next_fetch, id)]

\* FoldResult with a placeholder: a failed id is retained as an empty item
FoldResult_placeholder(acc, id, r, descend) ==
    LET att1 == acc.attempted \cup {id}
    IN IF r.st = "ok"
       THEN IF Tombstoned(r.item)
            THEN [acc EXCEPT !.attempted = att1]
            ELSE [items |-> (id :> r.item) @@ acc.items,
                  attempted |-> att1,
                  next_fetch |-> IF descend THEN acc.next_fetch \o r.item.kids
                                            ELSE acc.next_fetch]
       ELSE [acc EXCEPT !.attempted = att1,
                        !.items = (id :> HnItem(id, <<>>, FALSE, FALSE)) @@ acc.items]

\* FoldResult without the depth test: the children of every retained item
\* are put on the next frontier
FoldResult_always_descend(acc, id, r, descend) ==
    LET att1 == acc.attempted \cup {id}
    IN IF r.st = "ok"
       THEN IF Tombstoned(r.item)
            THEN [acc EXCEPT !.attempted = att1]
            ELSE [items |-> (id :> r.item) @@ acc.items,
                  attempted |-> att1,
                  next_fetch |-> acc.next_fetch \o r.item.kids]
       ELSE [acc EXCEPT !.attempted = att1]

\* lines 166-175: one iteration of the
\* `for (id, result) in to_fetch.into_iter().zip(results)` loop; acc holds
\* items, attempted and next_fetch, descend is `depth < max_depth`
FoldResult(acc, id, r, descend) ==
    LET att1 == acc.attempted \cup {id}
    IN IF r.st = "ok"
       THEN IF Tombstoned(r.item)
            THEN [acc EXCEPT !.attempted = att1]
            ELSE [items |-> (id :> r.item) @@ acc.items,
                  attempted |-> att1,
                  next_fetch |-> IF descend THEN acc.next_fetch \o r.item.kids
                                            ELSE acc.next_fetch]
       ELSE [acc EXCEPT !.attempted = att1]

\* lines 164-176: the loop over the level's results, from position i on
RECURSIVE FanInLoop(_, _, _, _, _)
FanInLoop(i, tf, res, acc, descend) ==
    IF i > Len(tf) THEN acc
    ELSE FanInLoop(i + 1, tf, res, FoldResult(acc, tf[i], res[i], descend), descend)

\* a join that is ready as soon as one future has completed (a
\* select-style combinator in the place of join_all)
JoinAllReady_any(res) == \E i \in 1..Len(res) : res[i].st # "pending"

\* join_all(futures).await is ready when every future has completed
JoinAllReady(res) == \A i \in 1..Len(res) : res[i].st # "pending"

InitFetch ==
    /\ MigIdle /\ CtxIdle /\ TuiIdle /\ EvIdle
    /\ TreeIdle
    /\ StoriesIdle
    /\ pc = "start"
    /\ story_kids \in SeqsUpTo(Ids, MaxRoots)
    /\ max_depth \in 0..MaxDepthArg
    /\ force_refresh \in BOOLEAN
    /\ has_storage \in BOOLEAN
    /\ upstream = <<>>
    /\ cache = None
    /\ items = <<>>
    /\ attempted = {}
    /\ to_fetch = <<>>
    /\ depth = 0
    /\ results = <<>>
    /\ inflight = {}
    /\ comments = <<>>
    /\ fetch_log = <<>>
    /\ fetch_outcomes = {}
    /\ read_outcome = "none"
    /\ write_outcome = "none"
    /\ result = [st |-> "none", comments |-> <<>>]
    /\ calls = 1
    /\ cache_age = 0

\* lines 155-158: the locals of a traversal
BeginTraversal ==
    /\ items' = <<>>
    /\ attempted' = {}
    /\ to_fetch' = story_kids
    /\ depth' = 0
    /\ pc' = "loop"

\* the freshness policy of get_fresh_comments: a thread entry stays fresh
\* whatever time has passed since it was saved
ThreadFresh(age) == TRUE

\* a call that goes to the network without consulting the store
Start_always_traverse ==
    /\ pc = "start"
    /\ BeginTraversal
    /\ UNCHANGED <<story_kids, max_depth, force_refresh, has_storage, upstream,
                   cache, results, inflight, comments, fetch_log, fetch_outcomes,
                   read_outcome,
                   write_outcome, result, calls>>
    /\ UNCHANGED cache_age
    /\ UNCHANGED <<treeVars, storyVars, sideVars>>

\* the cache condition without the force_refresh test
Start_ignoring_force ==
    /\ pc = "start"
    /\ IF has_storage
       THEN /\ pc' = "cache_read"
            /\ UNCHANGED <<items, attempted, to_fetch, depth>>
       ELSE BeginTraversal
    /\ UNCHANGED <<story_kids, max_depth, force_refresh, has_storage, upstream,
                   cache, results, inflight, comments, fetch_log, fetch_outcomes,
                   read_outcome,
                   write_outcome, result, calls>>
    /\ UNCHANGED cache_age
    /\ UNCHANGED <<treeVars, storyVars, sideVars>>

\* lines 146-148: the cache is consulted unless force_refresh is set or no
\* store is configured
Start ==
    /\ pc = "start"
    /\ IF ~force_refresh /\ has_storage
       THEN /\ pc' = "cache_read"
            /\ UNCHANGED <<items, attempted, to_fetch, depth>>
       ELSE BeginTraversal
    /\ UNCHANGED <<story_kids, max_depth, force_refresh, has_storage, upstream,
                   cache, results, inflight, comments, fetch_log, fetch_outcomes,
                   read_outcome,
                   write_outcome, result, calls>>
    /\ UNCHANGED cache_age
    /\ UNCHANGED <<treeVars, storyVars, sideVars>>

\* a cache hit without the `return`: the traversal runs all the same
CacheHit_no_return ==
    /\ pc = "cache_read"
    /\ cache # None /\ ThreadFresh(cache_age)
    /\ read_outcome' = "hit"
    /\ BeginTraversal
    /\ UNCHANGED <<story_kids, max_depth, force_refresh, has_storage, upstream,
                   cache, results, inflight, comments, fetch_log, fetch_outcomes,
                   write_outcome, result, calls>>
    /\ UNCHANGED cache_age
    /\ UNCHANGED <<treeVars, storyVars, sideVars>>

\* lines 148-153: get_fresh_comments returned Ok(Some(cached))
CacheHit ==
    /\ pc = "cache_read"
    /\ cache # None /\ ThreadFresh(cache_age)
    /\ read_outcome' = "hit"
    /\ result' = [st |-> "ok",
                  comments |-> order_cached_comments(LoadRows(cache[1], StoryId),
                                                     story_kids)]
    /\ pc' = "done"
    /\ UNCHANGED <<story_kids, max_depth, force_refresh, has_storage, upstream,
                   cache, items, attempted, to_fetch, depth, results, inflight,
                   comments, fetch_log, fetch_outcomes, write_outcome, calls>>
    /\ UNCHANGED cache_age
    /\ UNCHANGED <<treeVars, storyVars, sideVars>>

\* line 148: get_fresh_comments returned Ok(None)
CacheMiss ==
    /\ pc = "cache_read"
    /\ cache = None \/ ~ThreadFresh(cache_age)
    /\ read_outcome' = "miss"
    /\ BeginTraversal
    /\ UNCHANGED <<story_kids, max_depth, force_refresh, has_storage, upstream,
                   cache, results, inflight, comments, fetch_log, fetch_outcomes,
                   write_outcome,
                   result, calls>>
    /\ UNCHANGED cache_age
    /\ UNCHANGED <<treeVars, storyVars, sideVars>>

\* a cache read written with `?`: the read error ends the call
OnReadError_propagate ==
    /\ pc' = "done"
    /\ result' = [st |-> "err", comments |-> <<>>]
    /\ UNCHANGED <<items, attempted, to_fetch, depth>>

\* what the call does when get_fresh_comments returned Err(_): the
\* `if let Ok(Some(cached))` pattern does not match
OnReadError ==
    /\ BeginTraversal
    /\ UNCHANGED result

\* line 148: get_fresh_comments returned Err(_)
CacheReadError ==
    /\ pc = "cache_read"
    /\ read_outcome' = "err"
    /\ OnReadError
    /\ UNCHANGED <<story_kids, max_depth, force_refresh, has_storage, upstream,
                   cache, results, inflight, comments, fetch_log, fetch_outcomes,
                   write_outcome,
                   calls>>
    /\ UNCHANGED cache_age
    /\ UNCHANGED <<treeVars, storyVars, sideVars>>

\* lines 160-162: the loop condition holds; one fetch_item per frontier
\* position is issued and join_all awaits them
FanOut ==
    /\ pc = "loop"
    /\ to_fetch # <<>> /\ depth <= max_depth
    /\ results' = [i \in 1..Len(to_fetch) |-> Pending]
    /\ inflight' = inflight \cup
          {[pos |-> i, id |-> to_fetch[i], level |-> depth] : i \in 1..Len(to_fetch)}
    /\ fetch_log' = fetch_log \o [i \in 1..Len(to_fetch) |-> <<to_fetch[i], depth>>]
    /\ UNCHANGED fetch_outcomes
    /\ pc' = "join"
    /\ UNCHANGED <<story_kids, max_depth, force_refresh, has_storage, upstream,
                   cache, items, attempted, to_fetch, depth, comments,
                   read_outcome, write_outcome, result, calls>>
    /\ UNCHANGED cache_age
    /\ UNCHANGED <<treeVars, storyVars, sideVars>>

\* a join that hands the results over in completion order (a
\* FuturesUnordered-style collection in the place of join_all)
Deliver_completion_order(e, r) ==
    IF pc = "join" /\ e.level = depth
          /\ \E i \in 1..Len(results) : results[i].st = "pending"
    THEN LET first == CHOOSE i \in 1..Len(results) :
                         /\ results[i].st = "pending"
                         /\ \A j \in 1..(i - 1) : results[j].st # "pending"
         IN results' = [results EXCEPT ![first] = r]
    ELSE UNCHANGED results

\* a completed request fills its slot of join_all, if the join that issued
\* it is still awaited
Deliver(e, r) ==
    IF pc = "join" /\ e.level = depth /\ e.pos <= Len(results)
    THEN results' = [results EXCEPT ![e.pos] = r]
    ELSE UNCHANGED results

\* a gateway that retries: a failed request is issued once more before
\* its error is handed to the join
CompleteErr_retrying ==
    /\ \E e \in inflight :
          /\ fetch_outcomes' = fetch_outcomes \cup {<<e.id, "err">>}
          /\ IF Len(fetch_log) < 2 * MaxRefs /\ <<e.id, "err">> \notin fetch_outcomes
             THEN /\ fetch_log' = Append(fetch_log, <<e.id, e.level>>)
                  /\ UNCHANGED <<inflight, results>>
             ELSE /\ inflight' = inflight \ {e}
                  /\ Deliver(e, Err)
                  /\ UNCHANGED fetch_log
    /\ UNCHANGED <<pc, story_kids, max_depth, force_refresh, has_storage,
                   upstream, cache, items, attempted, to_fetch, depth, comments,
                   read_outcome, write_outcome, result, calls>>
    /\ UNCHANGED cache_age
    /\ UNCHANGED <<treeVars, storyVars, sideVars>>

\* a request that records its own failure: the future of a failed fetch
\* inserts its id into the attempt set itself
CompleteErr_marks_attempted ==
    /\ \E e \in inflight :
          /\ inflight' = inflight \ {e}
          /\ fetch_outcomes' = fetch_outcomes \cup {<<e.id, "err">>}
          /\ attempted' = attempted \cup {e.id}
          /\ Deliver(e, Err)
    /\ UNCHANGED <<pc, story_kids, max_depth, force_refresh, has_storage,
                   upstream, cache, items, to_fetch, depth, comments,
                   fetch_log, read_outcome, write_outcome, result, calls>>
    /\ UNCHANGED cache_age
    /\ UNCHANGED <<treeVars, storyVars, sideVars>>

\* fetch_item(id) fails: transport, HTTP status or parse error
CompleteErr ==
    /\ \E e \in inflight :
          /\ inflight' = inflight \ {e}
          /\ fetch_outcomes' = fetch_outcomes \cup {<<e.id, "err">>}
          /\ Deliver(e, Err)
    /\ UNCHANGED <<pc, story_kids, max_depth, force_refresh, has_storage,
                   upstream, cache, items, attempted, to_fetch, depth, comments,
                   fetch_log, read_outcome, write_outcome, result, calls>>
    /\ UNCHANGED cache_age
    /\ UNCHANGED <<treeVars, storyVars, sideVars>>

\* fetch_item(id) succeeds with the item the remote API holds for id
CompleteOk ==
    /\ \E e \in inflight :
          /\ inflight' = inflight \ {e}
          /\ fetch_outcomes' = fetch_outcomes \cup {<<e.id, "ok">>}
          /\ IF e.id \in DOMAIN upstream
             THEN /\ Deliver(e, Ok(upstream[e.id]))
                  /\ UNCHANGED upstream
             ELSE \E item \in UpstreamItems(e.id) :
                     /\ UpRefs(upstream, story_kids) + Len(item.kids) <= MaxUpRefs
                     /\ upstream' = (e.id :> item) @@ upstream
                     /\ Deliver(e, Ok(item))
    /\ UNCHANGED <<pc, story_kids, max_depth, force_refresh, has_storage,
                   cache, items, attempted, to_fetch, depth, comments,
                   fetch_log, read_outcome, write_outcome, result, calls>>
    /\ UNCHANGED cache_age
    /\ UNCHANGED <<treeVars, storyVars, sideVars>>

\* a fan-in that writes the records of the levels folded so far through to
\* the store
FanIn_persisting ==
    /\ pc = "join"
    /\ JoinAllReady(results)
    /\ LET r == FanInLoop(1, to_fetch, results,
                          [items |-> items, attempted |-> attempted,
                           next_fetch |-> <<>>],
                          depth < max_depth)
       IN /\ items' = r.items
          /\ attempted' = r.attempted
          /\ to_fetch' = r.next_fetch
          /\ cache' = IF has_storage
                      THEN Some(SaveRows(build_comment_tree(r.items, r.attempted,
                                                            story_kids), StoryId))
                      ELSE cache
    /\ depth' = depth + 1
    /\ results' = <<>>
    /\ pc' = "loop"
    /\ UNCHANGED <<story_kids, max_depth, force_refresh, has_storage, upstream,
                   inflight, comments, fetch_log, fetch_outcomes,
                   read_outcome, write_outcome, result, calls>>
    /\ cache_age' = 0
    /\ UNCHANGED <<treeVars, storyVars, sideVars>>

\* a fan-in without `depth += 1`
FanIn_no_increment ==
    /\ pc = "join"
    /\ JoinAllReady(results)
    /\ LET r == FanInLoop(1, to_fetch, results,
                          [items |-> items, attempted |-> attempted,
                           next_fetch |-> <<>>],
                          depth < max_depth)
       IN /\ items' = r.items
          /\ attempted' = r.attempted
          /\ to_fetch' = r.next_fetch
    /\ results' = <<>>
    /\ pc' = "loop"
    /\ UNCHANGED <<story_kids, max_depth, force_refresh, has_storage, upstream,
                   cache, inflight, comments, fetch_log, fetch_outcomes,
                   read_outcome, depth,
                   write_outcome, result, calls>>
    /\ UNCHANGED cache_age
    /\ UNCHANGED <<treeVars, storyVars, sideVars>>

\* lines 162-178: join_all returns and the level's results are folded in
FanIn ==
    /\ pc = "join"
    /\ JoinAllReady(results)
    /\ LET r == FanInLoop(1, to_fetch, results,
                          [items |-> items, attempted |-> attempted,
                           next_fetch |-> <<>>],
                          depth < max_depth)
       IN /\ items' = r.items
          /\ attempted' = r.attempted
          /\ to_fetch' = r.next_fetch
    /\ depth' = depth + 1
    /\ results' = <<>>
    /\ pc' = "loop"
    /\ UNCHANGED <<story_kids, max_depth, force_refresh, has_storage, upstream,
                   cache, inflight, comments, fetch_log, fetch_outcomes,
                   read_outcome,
                   write_outcome, result, calls>>
    /\ UNCHANGED cache_age
    /\ UNCHANGED <<treeVars, storyVars, sideVars>>

\* lines 181-195: the loop has ended; the tree is built and, with a store,
\* save_comments is awaited
Build ==
    /\ pc = "loop"
    /\ ~(to_fetch # <<>> /\ depth <= max_depth)
    /\ comments' = build_comment_tree(items, attempted, story_kids)
    /\ IF has_storage
       THEN /\ pc' = "save"
            /\ UNCHANGED result
       ELSE /\ pc' = "done"
            /\ result' = [st |-> "ok", comments |-> comments']
    /\ UNCHANGED <<story_kids, max_depth, force_refresh, has_storage, upstream,
                   cache, items, attempted, to_fetch, depth, results, inflight,
                   fetch_log, fetch_outcomes, read_outcome, write_outcome, calls>>
    /\ UNCHANGED cache_age
    /\ UNCHANGED <<treeVars, storyVars, sideVars>>

\* lines 191-195: save_comments returned Ok(())
SaveOk ==
    /\ pc = "save"
    /\ cache' = Some(SaveRows(comments, StoryId))
    /\ cache_age' = 0
    /\ write_outcome' = "ok"
    /\ result' = [st |-> "ok", comments |-> comments]
    /\ pc' = "done"
    /\ UNCHANGED <<story_kids, max_depth, force_refresh, has_storage, upstream,
                   items, attempted, to_fetch, depth, results, inflight,
                   comments, fetch_log, fetch_outcomes, read_outcome, calls>>
    /\ UNCHANGED <<treeVars, storyVars, sideVars>>

\* what the call returns when save_comments returned Err(e): `?` returns
\* the error
OnWriteError == [st |-> "err", comments |-> <<>>]

\* line 191: save_comments returned Err(e)
SaveErr ==
    /\ pc = "save"
    /\ write_outcome' = "err"
    /\ result' = OnWriteError
    /\ pc' = "done"
    /\ UNCHANGED <<story_kids, max_depth, force_refresh, has_storage, upstream,
                   cache, items, attempted, to_fetch, depth, results, inflight,
                   comments, fetch_log, fetch_outcomes, read_outcome, calls>>
    /\ UNCHANGED cache_age
    /\ UNCHANGED <<treeVars, storyVars, sideVars>>

\* the caller asks for the thread again
NextCall ==
    /\ pc = "done"
    /\ calls < MaxCalls
    /\ calls' = calls + 1
    /\ force_refresh' \in BOOLEAN
    /\ pc' = "start"
    /\ items' = <<>>
    /\ attempted' = {}
    /\ to_fetch' = <<>>
    /\ depth' = 0
    /\ results' = <<>>
    /\ comments' = <<>>
    /\ fetch_log' = <<>>
    /\ fetch_outcomes' = {}
    /\ read_outcome' = "none"
    /\ write_outcome' = "none"
    /\ result' = [st |-> "none", comments |-> <<>>]
    /\ UNCHANGED <<story_kids, max_depth, has_storage, upstream, cache, inflight>>
    /\ UNCHANGED cache_age
    /\ UNCHANGED <<treeVars, storyVars, sideVars>>

\* one call on a store that holds no thread entry yet (CacheHit is never
\* enabled in it)
NextFetch ==
    \/ Start \/ CacheMiss \/ CacheReadError
    \/ FanOut \/ CompleteErr \/ CompleteOk \/ FanIn
    \/ Build \/ SaveOk \/ SaveErr

SpecFetch == InitFetch /\ [][NextFetch]_vars

\* repeated calls on the same store
NextRefetch == NextFetch \/ CacheHit \/ NextCall

SpecRefetch == InitFetch /\ [][NextRefetch]_vars

\* one call for the thread of the unit test
\* test_cached_comments_match_fresh_tree_order: the gateway holds
\* 1->[2,3], 2->[4,5], 3->[6], 6->[7], the story's child list is [1] and the
\* depth bound is at least 3
InitThreadScenario ==
    /\ MigIdle /\ CtxIdle /\ TuiIdle /\ EvIdle
    /\ TreeIdle
    /\ StoriesIdle
    /\ pc = "start"
    /\ story_kids = <<1>>
    /\ max_depth \in 3..MaxScenarioDepth
    /\ force_refresh \in BOOLEAN
    /\ has_storage \in BOOLEAN
    /\ upstream = ItemsOf(ScenarioKids[3])
    /\ cache = None
    /\ items = <<>>
    /\ attempted = {}
    /\ to_fetch = <<>>
    /\ depth = 0
    /\ results = <<>>
    /\ inflight = {}
    /\ comments = <<>>
    /\ fetch_log = <<>>
    /\ fetch_outcomes = {}
    /\ read_outcome = "none"
    /\ write_outcome = "none"
    /\ result = [st |-> "none", comments |-> <<>>]
    /\ calls = 1
    /\ cache_age = 0

SpecThreadScenario == InitThreadScenario /\ [][NextFetch]_vars

\* time passes between two calls while the store holds a thread entry
TimePasses ==
    /\ pc = "done"
    /\ cache # None
    /\ cache_age < MaxAge
    /\ cache_age' = cache_age + 1
    /\ UNCHANGED <<pc, story_kids, max_depth, force_refresh, has_storage,
                   upstream, cache, items, attempted, to_fetch, depth, results,
                   inflight, comments, fetch_log, fetch_outcomes, read_outcome,
                   write_outcome, result, calls>>
    /\ UNCHANGED <<treeVars, storyVars, sideVars>>

\* repeated calls on the same store with time passing between them
NextAging == NextRefetch \/ TimePasses

SpecAging == InitFetch /\ [][NextAging]_vars

\* the traversal under a runtime that polls the call's future: every
\* issued request completes, and the loop takes its next step when it can
SpecFetchFair ==
    /\ InitFetch
    /\ [][NextFetch]_vars
    /\ WF_vars(CompleteOk \/ CompleteErr)
    /\ WF_vars(FanOut)
    /\ WF_vars(FanIn)
    /\ WF_vars(Build)

-----------------------------------------------------------------------------
(* HnClient::fetch_stories and HnClient::fetch_stories_by_ids *)

PAGE_SIZE == 30

Min(a, b) == IF a <= b THEN a ELSE b

\* a Story is modelled by its id
Story(id) == [id |-> id]

\* id_positions.get(&s.id).copied().unwrap_or(usize::MAX): the last position
\* of the id in ids (zero-based), or a key beyond every position
PositionKey(ids, id) ==
    LET hits == {i \in 1..Len(ids) : ids[i] = id}
    IN IF hits = {} THEN Len(ids)
       ELSE (CHOOSE i \in hits : \A j \in hits : j <= i) - 1

\* stories.sort_by_key(..): a stable sort
RECURSIVE SortByKey(_, _)
SortByKey(st, ids) ==
    IF st = <<>> THEN <<>>
    ELSE LET rest == SortByKey(Tail(st), ids)
             k == PositionKey(ids, Head(st).id)
             n == Cardinality({i \in 1..Len(rest) : PositionKey(ids, rest[i].id) < k})
         IN SubSeq(rest, 1, n) \o <<Head(st)>> \o SubSeq(rest, n + 1, Len(rest))

\* lines 109-113: the stories of the successful results, in to_fetch order;
\* Story::from_item is None for an item that is no story
RECURSIVE FetchedOf(_, _)
FetchedOf(tf, res) ==
    IF tf = <<>> THEN <<>>
    ELSE (IF Head(res) = "story" THEN <<Story(Head(tf))>> ELSE <<>>)
            \o FetchedOf(Tail(tf), Tail(res))

InitStories ==
    /\ MigIdle /\ CtxIdle /\ TuiIdle /\ EvIdle
    /\ TreeIdle
    /\ FetchIdle
    /\ spc = "feed"
    /\ s_page \in 0..MaxPage
    /\ s_listing = <<>>
    /\ s_force \in BOOLEAN
    /\ s_has_storage \in BOOLEAN
    /\ s_store \in SUBSET Ids
    /\ s_has_storage = FALSE => s_store = {}
    /\ s_feed = "none"
    /\ s_ids = <<>>
    /\ s_idx = 0
    /\ s_stories = <<>>
    /\ s_to_fetch = <<>>
    /\ s_results = <<>>
    /\ s_fetched = <<>>
    /\ s_fetch_log = <<>>
    /\ s_read_log = <<>>
    /\ s_save_log = <<>>
    /\ s_result = [st |-> "none", stories |-> <<>>]

\* a feed error swallowed into an empty page (unwrap_or_default)
OnFeedError_swallowed == [st |-> "ok", stories |-> <<>>]

\* what fetch_stories returns when fetch_feed_ids returned Err(e): `?`
\* returns the error
OnFeedError == [st |-> "err", stories |-> <<>>]

\* line 63: fetch_feed_ids returned Err(e)
FeedErr ==
    /\ spc = "feed"
    /\ s_feed' = "err"
    /\ s_result' = OnFeedError
    /\ spc' = "done"
    /\ UNCHANGED s_listing
    /\ UNCHANGED <<s_page, s_force, s_has_storage, s_store, s_ids, s_idx,
                   s_stories, s_to_fetch, s_results, s_fetched, s_fetch_log,
                   s_read_log, s_save_log>>
    /\ UNCHANGED <<treeVars, fetchVars, sideVars>>

\* let start = page * PAGE_SIZE
PageStart(page) == page * PAGE_SIZE

\* a page that runs to the end of the listing
PageEnd_whole(page, n) == n

\* let end = (start + PAGE_SIZE).min(ids.len())
PageEnd(page, n) == Min(PageStart(page) + PAGE_SIZE, n)

\* lines 63-72 and 82-102: fetch_feed_ids returned listing; the page is cut
\* out of it and fetch_stories_by_ids begins
FeedOkWith(listing) ==
    /\ spc = "feed"
    /\ s_feed' = "ok"
    /\ s_listing' = listing
    /\ LET start == PageStart(s_page)
           end == PageEnd(s_page, Len(listing))
       IN IF start >= Len(listing)
          THEN /\ s_result' = [st |-> "ok", stories |-> <<>>]
               /\ spc' = "done"
               /\ UNCHANGED <<s_ids, s_idx, s_to_fetch>>
          ELSE /\ s_ids' = SubSeq(listing, start + 1, end)
               /\ IF ~s_force /\ s_has_storage
                  THEN /\ spc' = "read"
                       /\ s_idx' = 1
                       /\ UNCHANGED s_to_fetch
                  ELSE /\ spc' = "fetch"
                       /\ s_to_fetch' = s_ids'
                       /\ UNCHANGED s_idx
               /\ UNCHANGED s_result
    /\ UNCHANGED <<s_page, s_force, s_has_storage, s_store, s_stories,
                   s_results, s_fetched, s_fetch_log, s_read_log, s_save_log>>
    /\ UNCHANGED <<treeVars, fetchVars, sideVars>>

\* line 63: fetch_feed_ids returned Ok(ids)
FeedOk == \E listing \in SeqsUpTo(Ids, MaxFeed) : FeedOkWith(listing)

\* the end of one iteration of the `for &id in ids` loop of lines 88-96
NextRead ==
    /\ s_idx' = s_idx + 1
    /\ spc' = IF s_idx + 1 > Len(s_ids) THEN "fetch" ELSE "read"

\* lines 89-91: get_fresh_story returned Ok(Some(cached))
StoryCacheHit ==
    /\ spc = "read"
    /\ s_ids[s_idx] \in s_store
    /\ s_stories' = Append(s_stories, Story(s_ids[s_idx]))
    /\ s_read_log' = Append(s_read_log, <<s_ids[s_idx], "hit">>)
    /\ NextRead
    /\ UNCHANGED s_listing
    /\ UNCHANGED <<s_page, s_force, s_has_storage, s_store, s_feed, s_ids,
                   s_to_fetch, s_results, s_fetched, s_fetch_log, s_save_log,
                   s_result>>
    /\ UNCHANGED <<treeVars, fetchVars, sideVars>>

\* lines 92-94: get_fresh_story returned Ok(None)
StoryCacheMiss ==
    /\ spc = "read"
    /\ s_ids[s_idx] \notin s_store
    /\ s_to_fetch' = Append(s_to_fetch, s_ids[s_idx])
    /\ s_read_log' = Append(s_read_log, <<s_ids[s_idx], "miss">>)
    /\ NextRead
    /\ UNCHANGED s_listing
    /\ UNCHANGED <<s_page, s_force, s_has_storage, s_store, s_feed, s_ids,
                   s_stories, s_results, s_fetched, s_fetch_log, s_save_log,
                   s_result>>
    /\ UNCHANGED <<treeVars, fetchVars, sideVars>>

\* a loop that passes over an id whose read failed: it is neither served
\* nor put on to_fetch
OnStoryReadError_skip ==
    /\ UNCHANGED s_to_fetch
    /\ NextRead
    /\ UNCHANGED s_result

\* what the loop does with an id whose get_fresh_story returned Err(_): the
\* `if let Ok(Some(cached))` pattern does not match
OnStoryReadError ==
    /\ s_to_fetch' = Append(s_to_fetch, s_ids[s_idx])
    /\ NextRead
    /\ UNCHANGED s_result

\* lines 92-94: get_fresh_story returned Err(_)
StoryCacheReadError ==
    /\ spc = "read"
    /\ s_read_log' = Append(s_read_log, <<s_ids[s_idx], "err">>)
    /\ OnStoryReadError
    /\ UNCHANGED s_listing
    /\ UNCHANGED <<s_page, s_force, s_has_storage, s_store, s_feed, s_ids,
                   s_stories, s_results, s_fetched, s_fetch_log, s_save_log>>
    /\ UNCHANGED <<treeVars, fetchVars, sideVars>>

\* lines 105-107: one fetch_item per id of to_fetch is issued
StoryFanOut ==
    /\ spc = "fetch"
    /\ s_to_fetch # <<>>
    /\ s_results' = [i \in 1..Len(s_to_fetch) |-> "pending"]
    /\ s_fetch_log' = s_fetch_log \o s_to_fetch
    /\ spc' = "join"
    /\ UNCHANGED s_listing
    /\ UNCHANGED <<s_page, s_force, s_has_storage, s_store, s_feed, s_ids,
                   s_idx, s_stories, s_to_fetch, s_fetched, s_read_log,
                   s_save_log, s_result>>
    /\ UNCHANGED <<treeVars, fetchVars, sideVars>>

\* a return without the sort: the cached stories, then the fetched ones
Finish_unsorted(st) ==
    /\ s_stories' = st
    /\ s_result' = [st |-> "ok", stories |-> s_stories']
    /\ spc' = "done"

\* lines 125-130: the stories are put in the order of ids and returned
Finish(st) ==
    /\ s_stories' = SortByKey(st, s_ids)
    /\ s_result' = [st |-> "ok", stories |-> s_stories']
    /\ spc' = "done"

\* line 105: nothing is left to fetch
StoryAllCached ==
    /\ spc = "fetch"
    /\ s_to_fetch = <<>>
    /\ Finish(s_stories)
    /\ UNCHANGED s_listing
    /\ UNCHANGED <<s_page, s_force, s_has_storage, s_store, s_feed, s_ids,
                   s_idx, s_to_fetch, s_results, s_fetched, s_fetch_log,
                   s_read_log, s_save_log>>
    /\ UNCHANGED <<treeVars, fetchVars, sideVars>>

\* a fetch_item of the batch completes: it fails, or returns an item that
\* is a story or is none
StoryComplete ==
    /\ spc = "join"
    /\ \E i \in 1..Len(s_results) :
          /\ s_results[i] = "pending"
          /\ \E r \in {"err", "story", "other"} :
                s_results' = [s_results EXCEPT ![i] = r]
    /\ UNCHANGED s_listing
    /\ UNCHANGED <<spc, s_page, s_force, s_has_storage, s_store, s_feed, s_ids,
                   s_idx, s_stories, s_to_fetch, s_fetched, s_fetch_log,
                   s_read_log, s_save_log, s_result>>
    /\ UNCHANGED <<treeVars, fetchVars, sideVars>>

\* lines 107-122: join_all returns; without a store, or with nothing
\* fetched, the stories are returned
StoryJoin ==
    /\ spc = "join"
    /\ \A i \in 1..Len(s_results) : s_results[i] # "pending"
    /\ s_fetched' = FetchedOf(s_to_fetch, s_results)
    /\ IF s_has_storage /\ s_fetched' # <<>>
       THEN /\ spc' = "save"
            /\ s_idx' = 1
            /\ UNCHANGED <<s_stories, s_result>>
       ELSE /\ Finish(s_stories \o s_fetched')
            /\ UNCHANGED s_idx
    /\ UNCHANGED s_listing
    /\ UNCHANGED <<s_page, s_force, s_has_storage, s_store, s_feed, s_ids,
                   s_to_fetch, s_results, s_fetch_log, s_read_log, s_save_log>>
    /\ UNCHANGED <<treeVars, fetchVars, sideVars>>

\* line 118: save_story returned Ok(())
StorySaveOk ==
    /\ spc = "save"
    /\ s_store' = s_store \cup {s_fetched[s_idx].id}
    /\ s_save_log' = Append(s_save_log, <<s_fetched[s_idx].id, "ok">>)
    /\ IF s_idx + 1 > Len(s_fetched)
       THEN /\ Finish(s_stories \o s_fetched)
            /\ UNCHANGED s_idx
       ELSE /\ s_idx' = s_idx + 1
            /\ UNCHANGED <<spc, s_stories, s_result>>
    /\ UNCHANGED s_listing
    /\ UNCHANGED <<s_page, s_force, s_has_storage, s_feed, s_ids, s_to_fetch,
                   s_results, s_fetched, s_fetch_log, s_read_log>>
    /\ UNCHANGED <<treeVars, fetchVars, sideVars>>

\* what fetch_stories_by_ids returns when save_story returned Err(e): `?`
\* returns the error
OnStoryWriteError == [st |-> "err", stories |-> <<>>]

\* line 118: save_story returned Err(e)
StorySaveErr ==
    /\ spc = "save"
    /\ s_save_log' = Append(s_save_log, <<s_fetched[s_idx].id, "err">>)
    /\ s_result' = OnStoryWriteError
    /\ spc' = "done"
    /\ UNCHANGED s_listing
    /\ UNCHANGED <<s_page, s_force, s_has_storage, s_store, s_feed, s_ids,
                   s_idx, s_stories, s_to_fetch, s_results, s_fetched,
                   s_fetch_log, s_read_log>>
    /\ UNCHANGED <<treeVars, fetchVars, sideVars>>

NextStories ==
    \/ FeedErr \/ FeedOk
    \/ StoryCacheHit \/ StoryCacheMiss \/ StoryCacheReadError
    \/ StoryFanOut \/ StoryAllCached \/ StoryComplete \/ StoryJoin
    \/ StorySaveOk \/ StorySaveErr

SpecStories == InitStories /\ [][NextStories]_vars

-----------------------------------------------------------------------------
(* HnClient::fetch_stories over listings longer than a page: the listing   *)
(* holds the ids 1..n in order, the store holds none, every other or all   *)
(* of them, and the outcome of a fetch is fixed by its id.                 *)

\* the stores of the paging model
PageStores ==
    { {}, {i \in 1..MaxListing : i % 2 = 0}, 1..MaxListing }

\* the outcome of fetch_item(id) in the paging model
PageOutcome(id) ==
    CASE id % 3 = 0 -> "err"
      [] id % 3 = 1 -> "story"
      [] OTHER -> "other"

InitPage ==
    /\ MigIdle /\ CtxIdle /\ TuiIdle /\ EvIdle
    /\ TreeIdle
    /\ FetchIdle
    /\ spc = "feed"
    /\ s_page \in 0..MaxPageArg
    /\ s_listing = <<>>
    /\ s_force \in BOOLEAN
    /\ s_has_storage \in BOOLEAN
    /\ s_store \in (IF s_has_storage THEN PageStores ELSE {{}})
    /\ s_feed = "none"
    /\ s_ids = <<>>
    /\ s_idx = 0
    /\ s_stories = <<>>
    /\ s_to_fetch = <<>>
    /\ s_results = <<>>
    /\ s_fetched = <<>>
    /\ s_fetch_log = <<>>
    /\ s_read_log = <<>>
    /\ s_save_log = <<>>
    /\ s_result = [st |-> "none", stories |-> <<>>]

\* line 63: fetch_feed_ids returned the n ids of the listing
PageFeedOk == \E n \in 0..MaxListing : FeedOkWith([i \in 1..n |-> i])

\* the fetch_item of the first pending position of the batch completes
PageComplete ==
    /\ spc = "join"
    /\ \E i \in 1..Len(s_results) :
          /\ s_results[i] = "pending"
          /\ \A j \in 1..(i - 1) : s_results[j] # "pending"
          /\ s_results' = [s_results EXCEPT ![i] = PageOutcome(s_to_fetch[i])]
    /\ UNCHANGED s_listing
    /\ UNCHANGED <<spc, s_page, s_force, s_has_storage, s_store, s_feed, s_ids,
                   s_idx, s_stories, s_to_fetch, s_fetched, s_fetch_log,
                   s_read_log, s_save_log, s_result>>
    /\ UNCHANGED <<treeVars, fetchVars, sideVars>>

NextPage ==
    \/ FeedErr \/ PageFeedOk
    \/ StoryCacheHit \/ StoryCacheMiss
    \/ StoryFanOut \/ StoryAllCached \/ PageComplete \/ StoryJoin
    \/ StorySaveOk \/ StorySaveErr

SpecPage == InitPage /\ [][NextPage]_vars

-----------------------------------------------------------------------------
(* Both request paths of the client over one store *)

InitClient == InitFetch \/ InitStories

NextClient == NextFetch \/ NextStories

SpecClient == InitClient /\ [][NextClient]_vars

(***************************************************************************)
(* storage::migrations::run_migrations                                     *)
(*                                                                         *)
(* The database is modelled by the _schema table (the set of its version   *)
(* column, a primary key) and by the log of the migrations whose SQL ran.  *)
(* The statements on _schema behave as SQLite defines them on that state.  *)
(* The text of the migrations is not part of the model: execute_batch      *)
(* either succeeds or fails.                                               *)
(***************************************************************************)

\* MIGRATIONS, by the field the loop reads
MIGRATIONS ==
    << [version |-> 1], [version |-> 2], [version |-> 3],
       [version |-> 4], [version |-> 5] >>

\* the versions of the first k migrations
VersionsUpTo(k) == { MIGRATIONS[i].version : i \in 1..k }

\* SELECT MAX(version) wrongly answered by the newest version known
QueryCurrent_latest(schema) == MIGRATIONS[Len(MIGRATIONS)].version

\* SELECT COALESCE(MAX(version), 0) FROM _schema
QueryCurrent(schema) ==
    IF schema = {} THEN 0
    ELSE CHOOSE v \in schema : \A w \in schema : w <= v

\* a test that applies the migration at the current version again
ShouldApply_inclusive(version, current) == version >= current

\* if migration.version > current
ShouldApply(version, current) == version > current

\* a database before a run: fresh, or left by the runs of this or of an
\* earlier version of the program
InitMigrations ==
    /\ TreeIdle /\ FetchIdle /\ StoriesIdle /\ CtxIdle /\ TuiIdle /\ EvIdle
    /\ mpc = "idle"
    /\ \E k \in 0..Len(MIGRATIONS) :
        /\ m_schema = VersionsUpTo(k)
        /\ m_applied = [i \in 1..k |-> MIGRATIONS[i].version]
        /\ m_has_schema \in (IF k = 0 THEN BOOLEAN ELSE {TRUE})
    /\ m_current = 0
    /\ m_idx = 0
    /\ m_before = {}
    /\ m_run_applied = <<>>
    /\ m_result = "none"
    /\ m_prev_result = "none"
    /\ m_error = <<>>
    /\ m_prev_error = <<>>
    /\ m_runs = 0

\* StorageError::Migration { version, .. }
MigrationError(version) == [kind |-> "Migration", version |-> version]

\* the StorageError a failed statement on _schema converts into
SqliteError == [kind |-> "Sqlite", version |-> 0]

\* run_migrations is called: CREATE TABLE IF NOT EXISTS _schema succeeds and
\* current is read
MigBeginWith(current) ==
    /\ mpc \in {"idle", "done"}
    /\ m_runs < MaxRuns
    /\ m_runs' = m_runs + 1
    /\ m_has_schema' = TRUE
    /\ m_current' = current
    /\ m_idx' = 1
    /\ m_before' = m_schema
    /\ m_run_applied' = <<>>
    /\ m_prev_result' = m_result
    /\ m_prev_error' = m_error
    /\ m_result' = "none"
    /\ m_error' = None
    /\ mpc' = "loop"
    /\ UNCHANGED <<m_schema, m_applied>>
    /\ UNCHANGED <<treeVars, fetchVars, storyVars, ctxVars, uiVars>>

\* lines 38-50 with a query that returns its row
MigBegin == MigBeginWith(QueryCurrent(m_schema))

\* an iteration of the loop whose migration is not newer than current
MigSkip ==
    /\ mpc = "loop"
    /\ m_idx <= Len(MIGRATIONS)
    /\ ~ShouldApply(MIGRATIONS[m_idx].version, m_current)
    /\ m_idx' = m_idx + 1
    /\ UNCHANGED <<mpc, m_has_schema, m_schema, m_applied, m_current, m_before,
                   m_run_applied, m_result, m_prev_result, m_error,
                   m_prev_error, m_runs>>
    /\ UNCHANGED <<treeVars, fetchVars, storyVars, ctxVars, uiVars>>

\* an iteration that applies its migration: execute_batch succeeds, then the
\* INSERT INTO _schema, which fails on a version the table already holds
MigApply ==
    /\ mpc = "loop"
    /\ m_idx <= Len(MIGRATIONS)
    /\ ShouldApply(MIGRATIONS[m_idx].version, m_current)
    /\ LET v == MIGRATIONS[m_idx].version IN
        /\ m_applied' = Append(m_applied, v)
        /\ m_run_applied' = Append(m_run_applied, v)
        /\ IF v \in m_schema
           THEN /\ m_result' = "err"
                /\ m_error' = Some(SqliteError)
                /\ mpc' = "done"
                /\ UNCHANGED <<m_schema, m_idx>>
           ELSE /\ m_schema' = m_schema \cup {v}
                /\ m_idx' = m_idx + 1
                /\ UNCHANGED <<m_result, m_error, mpc>>
    /\ UNCHANGED <<m_has_schema, m_current, m_before, m_prev_result,
                   m_prev_error, m_runs>>
    /\ UNCHANGED <<treeVars, fetchVars, storyVars, ctxVars, uiVars>>

\* a failed migration that is recorded all the same
MigFail_recording ==
    /\ mpc = "loop"
    /\ m_idx <= Len(MIGRATIONS)
    /\ ShouldApply(MIGRATIONS[m_idx].version, m_current)
    /\ m_schema' = m_schema \cup {MIGRATIONS[m_idx].version}
    /\ m_result' = "err"
    /\ m_error' = Some(MigrationError(MIGRATIONS[m_idx].version))
    /\ mpc' = "done"
    /\ UNCHANGED <<m_has_schema, m_applied, m_current, m_idx, m_before,
                   m_run_applied, m_prev_result, m_prev_error, m_runs>>
    /\ UNCHANGED <<treeVars, fetchVars, storyVars, ctxVars, uiVars>>

\* an iteration whose execute_batch fails: StorageError::Migration is returned
MigFail ==
    /\ mpc = "loop"
    /\ m_idx <= Len(MIGRATIONS)
    /\ ShouldApply(MIGRATIONS[m_idx].version, m_current)
    /\ m_result' = "err"
    /\ m_error' = Some(MigrationError(MIGRATIONS[m_idx].version))
    /\ mpc' = "done"
    /\ UNCHANGED <<m_has_schema, m_schema, m_applied, m_current, m_idx, m_before,
                   m_run_applied, m_prev_result, m_prev_error, m_runs>>
    /\ UNCHANGED <<treeVars, fetchVars, storyVars, ctxVars, uiVars>>

\* the loop is over: Ok(())
MigOk ==
    /\ mpc = "loop"
    /\ m_idx > Len(MIGRATIONS)
    /\ m_result' = "ok"
    /\ mpc' = "done"
    /\ UNCHANGED <<m_has_schema, m_schema, m_applied, m_current, m_idx, m_before,
                   m_run_applied, m_prev_result, m_error, m_prev_error, m_runs>>
    /\ UNCHANGED <<treeVars, fetchVars, storyVars, ctxVars, uiVars>>

NextMigrations ==
    \/ MigBegin
    \/ MigSkip
    \/ MigApply
    \/ MigFail
    \/ MigOk

SpecMigrations == InitMigrations /\ [][NextMigrations]_vars

-----------------------------------------------------------------------------
(* run_migrations on a database whose statements on _schema can fail too   *)
(* (the database is busy, the disk is full)                                *)

\* lines 38-44: CREATE TABLE IF NOT EXISTS _schema fails; `?` returns the error
MigCreateFail ==
    /\ mpc \in {"idle", "done"}
    /\ m_runs < MaxRuns
    /\ m_runs' = m_runs + 1
    /\ m_before' = m_schema
    /\ m_run_applied' = <<>>
    /\ m_prev_result' = m_result
    /\ m_prev_error' = m_error
    /\ m_result' = "err"
    /\ m_error' = Some(SqliteError)
    /\ mpc' = "done"
    /\ UNCHANGED <<m_has_schema, m_schema, m_applied, m_current, m_idx>>
    /\ UNCHANGED <<treeVars, fetchVars, storyVars, ctxVars, uiVars>>

\* lines 46-50: the query for current fails; unwrap_or(0) makes current 0
MigQueryFail == MigBeginWith(0)

\* lines 54-63: execute_batch succeeds and the INSERT INTO _schema fails;
\* `?` returns the error
MigInsertFail ==
    /\ mpc = "loop"
    /\ m_idx <= Len(MIGRATIONS)
    /\ ShouldApply(MIGRATIONS[m_idx].version, m_current)
    /\ m_applied' = Append(m_applied, MIGRATIONS[m_idx].version)
    /\ m_run_applied' = Append(m_run_applied, MIGRATIONS[m_idx].version)
    /\ m_result' = "err"
    /\ m_error' = Some(SqliteError)
    /\ mpc' = "done"
    /\ UNCHANGED <<m_has_schema, m_schema, m_current, m_idx, m_before,
                   m_prev_result, m_prev_error, m_runs>>
    /\ UNCHANGED <<treeVars, fetchVars, storyVars, ctxVars, uiVars>>

NextMigrationsFaulty ==
    \/ NextMigrations
    \/ MigCreateFail
    \/ MigQueryFail
    \/ MigInsertFail

SpecMigrationsFaulty == InitMigrations /\ [][NextMigrationsFaulty]_vars

-----------------------------------------------------------------------------
(* views::tree::compute_tree_context                                       *)
(* A comment is modelled by its depth; positions count from 1.             *)

\* a scan that goes on past a shallower comment
ScanFrom_no_stop(depths, visible, j, check_depth) ==
    \E f \in j..Len(visible) : depths[visible[f]] = check_depth

\* the loop over visible_indices[vis_idx + 1..] for one check_depth, from
\* position j of visible_indices on
RECURSIVE ScanFrom(_, _, _, _)
ScanFrom(depths, visible, j, check_depth) ==
    IF j > Len(visible) THEN FALSE
    ELSE LET future_depth == depths[visible[j]] IN
         IF future_depth = check_depth THEN TRUE
         ELSE IF future_depth < check_depth THEN FALSE
         ELSE ScanFrom(depths, visible, j + 1, check_depth)

compute_tree_context(depths, visible) ==
    [vis_idx \in 1..Len(visible) |->
        [k \in 1..(depths[visible[vis_idx]] + 1) |->
            ScanFrom(depths, visible, vis_idx + 1, k - 1)]]

\* the arguments: any comments, any indices into them
InitContext ==
    /\ TreeIdle /\ FetchIdle /\ StoriesIdle /\ MigIdle /\ TuiIdle /\ EvIdle
    /\ cpc = "input"
    /\ c_depths \in SeqsUpTo(0..MaxCtxDepth, MaxCtxLen)
    /\ c_visible \in SeqsUpTo(1..Len(c_depths), MaxVisible)
    /\ c_context = <<>>

ComputeContext ==
    /\ cpc = "input"
    /\ c_context' = compute_tree_context(c_depths, c_visible)
    /\ cpc' = "done"
    /\ UNCHANGED <<c_depths, c_visible>>
    /\ UNCHANGED <<treeVars, fetchVars, storyVars, migVars, uiVars>>

SpecContext == InitContext /\ [][ComputeContext]_vars

(***************************************************************************)
(* tui::EventHandler::next: one select! loop over the tick interval and    *)
(* the terminal's event stream.                                            *)
(***************************************************************************)

\* how many items the event stream yields during one call, at most
MaxPolled == 2

\* how many times next is called
MaxNextCalls == 2

KeyEventKinds == {"Press", "Repeat", "Release"}

\* crossterm::event::Event
CrosstermEvents ==
    {[type |-> "Key", kind |-> k] : k \in KeyEventKinds}
        \cup {[type |-> t, kind |-> "none"] :
                 t \in {"Mouse", "Resize", "FocusGained", "FocusLost", "Paste"}}

NoCrosstermEvent == [type |-> "none", kind |-> "none"]

\* what event_stream.next() yields: Some(Ok(event)), Some(Err(_)) or None
StreamItems ==
    {[item |-> "SomeOk", event |-> e] : e \in CrosstermEvents}
        \cup {[item |-> "SomeErr", event |-> NoCrosstermEvent],
              [item |-> "None", event |-> NoCrosstermEvent]}

\* crate::event::Event, and the value that stands for "no return"
NoReturn == [ev |-> "none", key |-> NoCrosstermEvent]

EventTick == [ev |-> "Tick", key |-> NoCrosstermEvent]

EventKey(key) == [ev |-> "Key", key |-> key]

EventMouse == [ev |-> "Mouse", key |-> NoCrosstermEvent]

EventResize == [ev |-> "Resize", key |-> NoCrosstermEvent]

\* the stream branch that delivers a key event whatever its kind
OnStreamItem_any_key(polled) ==
    IF polled.item # "SomeOk" THEN NoReturn
    ELSE CASE polled.event.type = "Key" -> EventKey(polled.event)
           [] polled.event.type = "Mouse" -> EventMouse
           [] polled.event.type = "Resize" -> EventResize
           [] OTHER -> NoReturn

\* the stream branch of the select!: the Event the call returns for one item
\* of the stream, NoReturn when the loop goes round again
OnStreamItem(polled) ==
    IF polled.item # "SomeOk" THEN NoReturn
    ELSE CASE polled.event.type = "Key" ->
                IF polled.event.kind = "Press" THEN EventKey(polled.event)
                ELSE NoReturn
           [] polled.event.type = "Mouse" -> EventMouse
           [] polled.event.type = "Resize" -> EventResize
           [] OTHER -> NoReturn

InitEvents ==
    /\ TreeIdle /\ FetchIdle /\ StoriesIdle /\ MigIdle /\ CtxIdle /\ TuiIdle
    /\ EvIdle

\* next is called: a new interval, nothing polled yet
EvCall ==
    /\ epc \in {"idle", "returned"}
    /\ e_calls < MaxNextCalls
    /\ epc' = "waiting"
    /\ e_polled' = <<>>
    /\ e_ticked' = FALSE
    /\ e_returned' = NoReturn
    /\ e_calls' = e_calls + 1
    /\ UNCHANGED <<treeVars, fetchVars, storyVars, migVars, ctxVars, tuiVars>>

\* the tick branch completes
EvTick ==
    /\ epc = "waiting"
    /\ epc' = "returned"
    /\ e_ticked' = TRUE
    /\ e_returned' = EventTick
    /\ UNCHANGED <<e_polled, e_calls>>
    /\ UNCHANGED <<treeVars, fetchVars, storyVars, migVars, ctxVars, tuiVars>>

\* the stream branch completes with one item
EvStream ==
    /\ epc = "waiting"
    /\ Len(e_polled) < MaxPolled
    /\ \E polled \in StreamItems :
          /\ e_polled' = Append(e_polled, polled)
          /\ e_returned' = OnStreamItem(polled)
          /\ epc' = IF OnStreamItem(polled) = NoReturn THEN "waiting"
                    ELSE "returned"
    /\ UNCHANGED <<e_ticked, e_calls>>
    /\ UNCHANGED <<treeVars, fetchVars, storyVars, migVars, ctxVars, tuiVars>>

NextEvents == EvCall \/ EvTick \/ EvStream

SpecEvents == InitEvents /\ [][NextEvents]_vars

(***************************************************************************)
(* main::run_tui with tui::init and tui::restore.                          *)
(***************************************************************************)

\* how many frames the loop draws
MaxFrames == 12

\* the Events that EventHandler::next returns
ReturnedEvents == {"Tick", "Key", "Mouse", "Resize"}

InitTui ==
    /\ TreeIdle /\ FetchIdle /\ StoriesIdle /\ MigIdle /\ CtxIdle /\ EvIdle
    /\ TuiIdle

\* run_tui returns with the given result
TuiReturn(outcome) ==
    /\ rpc' = "returned"
    /\ r_result' = outcome

\* resolve_theme(&cli)? fails
ResolveThemeErr ==
    /\ rpc = "idle"
    /\ TuiReturn("err")
    /\ UNCHANGED <<r_raw, r_alt, r_init_ok, r_restore_called, r_quit, r_event,
                   r_frames>>
    /\ UNCHANGED <<treeVars, fetchVars, storyVars, migVars, ctxVars, evVars>>

ResolveThemeOk ==
    /\ rpc = "idle"
    /\ rpc' = "init"
    /\ UNCHANGED <<r_raw, r_alt, r_init_ok, r_restore_called, r_quit, r_event,
                   r_frames, r_result>>
    /\ UNCHANGED <<treeVars, fetchVars, storyVars, migVars, ctxVars, evVars>>

\* tui::init()? succeeds
TuiInitOk ==
    /\ rpc = "init"
    /\ r_raw' = TRUE
    /\ r_alt' = TRUE
    /\ r_init_ok' = TRUE
    /\ rpc' = "load"
    /\ UNCHANGED <<r_restore_called, r_quit, r_event, r_frames, r_result>>
    /\ UNCHANGED <<treeVars, fetchVars, storyVars, migVars, ctxVars, evVars>>

\* tui::init()? fails in enable_raw_mode, in execute! or in Terminal::new
TuiInitErr ==
    /\ rpc = "init"
    /\ \E stage \in {"enable_raw_mode", "execute", "Terminal::new"} :
          /\ r_raw' = (stage # "enable_raw_mode")
          /\ r_alt' \in IF stage = "enable_raw_mode" THEN {FALSE}
                        ELSE IF stage = "execute" THEN BOOLEAN
                        ELSE {TRUE}
    /\ TuiReturn("err")
    /\ UNCHANGED <<r_init_ok, r_restore_called, r_quit, r_event, r_frames>>
    /\ UNCHANGED <<treeVars, fetchVars, storyVars, migVars, ctxVars, evVars>>

\* App::new, EventHandler::new(250) and app.load_stories().await
LoadStories ==
    /\ rpc = "load"
    /\ rpc' = "draw"
    /\ UNCHANGED <<r_raw, r_alt, r_init_ok, r_restore_called, r_quit, r_event,
                   r_frames, r_result>>
    /\ UNCHANGED <<treeVars, fetchVars, storyVars, migVars, ctxVars, evVars>>

\* terminal.draw(..)? succeeds
DrawOk ==
    /\ rpc = "draw"
    /\ r_frames < MaxFrames
    /\ r_frames' = r_frames + 1
    /\ rpc' = "event"
    /\ UNCHANGED <<r_raw, r_alt, r_init_ok, r_restore_called, r_quit, r_event,
                   r_result>>
    /\ UNCHANGED <<treeVars, fetchVars, storyVars, migVars, ctxVars, evVars>>

\* terminal.draw(..)? fails: the ? returns the error
DrawErr ==
    /\ rpc = "draw"
    /\ TuiReturn("err")
    /\ UNCHANGED <<r_raw, r_alt, r_init_ok, r_restore_called, r_quit, r_event,
                   r_frames>>
    /\ UNCHANGED <<treeVars, fetchVars, storyVars, migVars, ctxVars, evVars>>

\* events.next().await? : next returns Ok(event) on each of its returns
NextEvent ==
    /\ rpc = "event"
    /\ \E e \in ReturnedEvents :
          /\ r_event' = e
          /\ rpc' = IF e = "Key" THEN "update" ELSE "check"
    /\ UNCHANGED <<r_raw, r_alt, r_init_ok, r_restore_called, r_quit,
                   r_frames, r_result>>
    /\ UNCHANGED <<treeVars, fetchVars, storyVars, migVars, ctxVars, evVars>>

\* keys::handle_key and, for Some(msg), app.update(msg).await
Update ==
    /\ rpc = "update"
    /\ r_quit' \in BOOLEAN
    /\ rpc' = "check"
    /\ UNCHANGED <<r_raw, r_alt, r_init_ok, r_restore_called, r_event,
                   r_frames, r_result>>
    /\ UNCHANGED <<treeVars, fetchVars, storyVars, migVars, ctxVars, evVars>>

\* if app.should_quit { break; }
CheckQuit ==
    /\ rpc = "check"
    /\ rpc' = IF r_quit THEN "restore" ELSE "draw"
    /\ UNCHANGED <<r_raw, r_alt, r_init_ok, r_restore_called, r_quit, r_event,
                   r_frames, r_result>>
    /\ UNCHANGED <<treeVars, fetchVars, storyVars, migVars, ctxVars, evVars>>

\* tui::restore()? succeeds, then Ok(())
RestoreOk ==
    /\ rpc = "restore"
    /\ r_restore_called' = TRUE
    /\ r_raw' = FALSE
    /\ r_alt' = FALSE
    /\ TuiReturn("ok")
    /\ UNCHANGED <<r_init_ok, r_quit, r_event, r_frames>>
    /\ UNCHANGED <<treeVars, fetchVars, storyVars, migVars, ctxVars, evVars>>

\* tui::restore()? fails in disable_raw_mode or in execute!
RestoreErr ==
    /\ rpc = "restore"
    /\ r_restore_called' = TRUE
    /\ \E stage \in {"disable_raw_mode", "execute"} :
          /\ r_raw' = (stage = "disable_raw_mode")
          /\ r_alt' \in IF stage = "disable_raw_mode" THEN {TRUE} ELSE BOOLEAN
    /\ TuiReturn("err")
    /\ UNCHANGED <<r_init_ok, r_quit, r_event, r_frames>>
    /\ UNCHANGED <<treeVars, fetchVars, storyVars, migVars, ctxVars, evVars>>

NextTui ==
    \/ ResolveThemeErr
    \/ ResolveThemeOk
    \/ TuiInitOk
    \/ TuiInitErr
    \/ LoadStories
    \/ DrawOk
    \/ DrawErr
    \/ NextEvent
    \/ Update
    \/ CheckQuit
    \/ RestoreOk
    \/ RestoreErr

SpecTui == InitTui /\ [][NextTui]_vars

-----------------------------------------------------------------------------
(* Properties of the tree linearizer *)

IdsOf(cs) == [i \in 1..Len(cs) |-> cs[i].id]

IdDepths(cs) == [i \in 1..Len(cs) |-> <<cs[i].id, cs[i].depth>>]

Triples(cs) == [i \in 1..Len(cs) |-> <<cs[i].id, cs[i].depth, cs[i].kids>>]

\* the children arrays of the items of S, one after the other
RECURSIVE ConcatKids(_, _)
ConcatKids(m, S) ==
    IF S = {} THEN <<>>
    ELSE LET x == CHOOSE y \in S : TRUE
         IN m[x].kids \o ConcatKids(m, S \ {x})

\* every id is referenced at most once by the root list and the children
\* arrays together: the references form a forest under the root list
IsForest(m, roots) ==
    LET refs == roots \o ConcatKids(m, DOMAIN m)
    IN Len(refs) = Cardinality(Range(refs))

\* the pre-order traversal of the forest of retained items under the list
\* todo: a node, then the subtrees of its children in order, then its later
\* siblings; ids without a retained item are skipped
RECURSIVE PreOrder(_, _, _)
PreOrder(m, todo, d) ==
    IF todo = <<>> THEN <<>>
    ELSE (IF Head(todo) \in DOMAIN m
          THEN <<<<Head(todo), d>>>> \o PreOrder(m, m[Head(todo)].kids, d + 1)
          ELSE <<>>)
         \o PreOrder(m, Tail(todo), d)

\* a is a subsequence of b
RECURSIVE IsSubSeq(_, _)
IsSubSeq(a, b) ==
    IF a = <<>> THEN TRUE
    ELSE IF b = <<>> THEN FALSE
    ELSE IF Head(a) = Head(b) THEN IsSubSeq(Tail(a), Tail(b))
    ELSE IsSubSeq(a, Tail(b))

\* the first retained child of every record is the next record
FirstChildFollows(cs) ==
    \A i \in 1..Len(cs) :
       LET retained(k) == k \in DOMAIN t_items
           surviving == SelectSeq(cs[i].kids, retained)
       IN surviving # <<>> => i < Len(cs) /\ cs[i + 1].id = surviving[1]

\* C1: the fresh path and the cache path agree.  Once the records of
\* build_comment_tree have been persisted (with the parent ids of
\* find_parent_id), loaded back and put in order by order_cached_comments
\* with the same root child list, the (id, depth, children) triples of the
\* two sequences are the same, element by element.
C1_FreshCacheEquivalence ==
    tpc = "cached" => Triples(cached_comments) = Triples(fresh_comments)

\* a round trip of a thread with a reply, a pruned child and an order that
\* is not the order of the ids
C1_Witness ==
    /\ tpc = "cached"
    /\ Len(fresh_comments) >= 2
    /\ fresh_comments[1].id > fresh_comments[2].id
    /\ fresh_comments[2].depth = 1
    /\ fresh_comments[1].kids # t_items[fresh_comments[1].id].kids

\* C2: on a forest of retained items the output of the linearizer, on the
\* fresh and on the cache path, is the pre-order depth-first traversal from
\* the root child list, with the walk's depths; a record's first retained
\* child is the record right after it; root children [10,20], 10->[11],
\* 20->[21], 21->[22] give [10,11,20,21,22].
C2_PreOrder ==
    /\ (tpc \in {"fresh", "stored", "cached"} /\ IsForest(t_items, t_root_kids))
          => /\ IdDepths(fresh_comments) = PreOrder(t_items, t_root_kids, 0)
             /\ FirstChildFollows(fresh_comments)
    /\ (tpc = "cached" /\ IsForest(t_items, t_root_kids))
          => /\ IdDepths(cached_comments) = PreOrder(t_items, t_root_kids, 0)
             /\ FirstChildFollows(cached_comments)
    /\ (tpc = "cached" /\ t_root_kids = <<10, 20>> /\ t_items = ItemsOf(ScenarioKids[4]))
          => /\ IdsOf(fresh_comments) = <<10, 11, 20, 21, 22>>
             /\ IdsOf(cached_comments) = <<10, 11, 20, 21, 22>>

\* a forest with two root children, the first of them with a reply
C2_Witness ==
    /\ tpc = "cached"
    /\ IsForest(t_items, t_root_kids)
    /\ Len(cached_comments) = 3
    /\ cached_comments[1].depth = 0
    /\ cached_comments[2].depth = 1
    /\ cached_comments[3].depth = 0

\* the children array the retained item of an emitted record came with
OriginalKids(c) == t_items[c.id].kids

\* C3: in every record build_comment_tree emits, no child id is left that is
\* in the Attempt Set and has no retained item; the children left are a
\* subsequence of the original children array; a record all of whose
\* children were attempted and are missing has an empty children list
\* (1->[999], 999 attempted: output [1], no children).
C3_AttemptedMissingPruned ==
    tpc # "input" =>
       /\ \A i \in 1..Len(fresh_comments) :
             LET c == fresh_comments[i]
             IN /\ \A k \in Range(c.kids) :
                      ~(k \in t_attempted /\ k \notin DOMAIN t_items)
                /\ IsSubSeq(c.kids, OriginalKids(c))
                /\ (\A k \in Range(OriginalKids(c)) :
                       k \in t_attempted /\ k \notin DOMAIN t_items)
                      => c.kids = <<>>
       /\ (t_items = ItemsOf(ScenarioKids[2]) /\ t_attempted = {999}
              /\ t_root_kids = <<1>>)
             => Triples(fresh_comments) = <<<<1, 0, <<>>>>>>

\* a record that lost one child of three and kept the two others
C3_Witness ==
    /\ tpc = "fresh"
    /\ \E i \in 1..Len(fresh_comments) :
          /\ Len(OriginalKids(fresh_comments[i])) = 3
          /\ Len(fresh_comments[i].kids) = 2
          /\ fresh_comments[i].kids[1] # fresh_comments[i].kids[2]

\* C4: a child id that was never attempted stays in its parent's children
\* list, in place, whether or not it has a retained item, and an id without
\* a retained item is never emitted (1->[999], 999 never attempted: output
\* [1] with children [999]).
C4_NeverAttemptedKept ==
    tpc # "input" =>
       /\ \A i \in 1..Len(fresh_comments) :
             LET c == fresh_comments[i]
                 unattempted(k) == k \notin t_attempted
             IN /\ SelectSeq(c.kids, unattempted)
                      = SelectSeq(OriginalKids(c), unattempted)
                /\ c.id \in DOMAIN t_items
       /\ (t_items = ItemsOf(ScenarioKids[2]) /\ t_attempted = {}
              /\ t_root_kids = <<1>>)
             => Triples(fresh_comments) = <<<<1, 0, <<999>>>>>>

\* an emitted record that keeps a child that was never attempted and has no
\* retained item
C4_Witness ==
    /\ tpc = "fresh"
    /\ \E i \in 1..Len(fresh_comments) :
          \E k \in Range(fresh_comments[i].kids) :
             k \notin t_attempted /\ k \notin DOMAIN t_items

-----------------------------------------------------------------------------
(* Properties of the thread traversal *)

\* no identifier occurs twice among the fetch_item requests of the call
FetchedOnce ==
    \A i, j \in 1..Len(fetch_log) : i # j => fetch_log[i][1] # fetch_log[j][1]

\* the child references of the items the gateway holds
Edges(up) ==
    {e \in Ids \X Ids : e[1] \in DOMAIN up /\ Contains(up[e[1]].kids, e[2])}

Compose(R, S) ==
    {e \in Ids \X Ids : \E b \in Ids : <<e[1], b>> \in R /\ <<b, e[2]>> \in S}

RECURSIVE Closure(_, _)
Closure(R, n) ==
    IF n = 0 THEN R
    ELSE LET C == Closure(R, n - 1) IN C \cup Compose(C, R)

\* no item is among its own descendants
Acyclic(up) ==
    \A a \in Ids : <<a, a>> \notin Closure(Edges(up), Cardinality(Ids))

\* C5 as stated: when the children arrays the traversal was given contain no
\* cycle, no identifier is fetched more than once
C5_AcyclicFetchedOnce == Acyclic(upstream) => FetchedOnce

\* C5, amended: when no identifier occurs more than once in the children
\* arrays the traversal was given (the story's child list and the children
\* arrays of the fetched items, taken together), no identifier is fetched
\* more than once in one fetch_comments_flat traversal, across the levels
\* and within each level
C5_ForestFetchedOnce ==
    pc \in {"loop", "join", "save", "done"} /\ IsForest(upstream, story_kids)
        => FetchedOnce

\* a finished traversal of a forest that fetched two levels, three requests
C5_Witness ==
    /\ pc = "done"
    /\ IsForest(upstream, story_kids)
    /\ Len(fetch_log) >= 3
    /\ \E j \in 1..Len(fetch_log) : fetch_log[j][2] >= 1

-----------------------------------------------------------------------------
(* Properties of the error handling *)

\* the last save_story of the call failed
LastSaveFailed ==
    s_save_log # <<>> /\ s_save_log[Len(s_save_log)][2] = "err"

\* C6: when the cache write fails after the fetch has succeeded, the caller
\* of fetch_comments_flat still receives the records that were built from
\* the fetch, and the caller of fetch_stories_by_ids the stories that were
\* read and fetched
C6_WriteFailureKeepsResult ==
    /\ pc = "done" /\ write_outcome = "err" => result.comments = comments
    /\ spc = "done" /\ LastSaveFailed
          => s_result.stories = SortByKey(s_stories \o s_fetched, s_ids)

\* the ids of the get_fresh_story calls that returned no story, in call order
NotHit(e) == e[2] # "hit"

ReadMisses ==
    LET ms == SelectSeq(s_read_log, NotHit)
    IN [i \in 1..Len(ms) |-> ms[i][1]]

\* the requests of level 0 are those of the story's child list, in order
RootsRequested ==
    /\ Len(fetch_log) >= Len(story_kids)
    /\ \A i \in 1..Len(story_kids) : fetch_log[i] = <<story_kids[i], 0>>

\* C7: a failed cache read is a cache miss.  After get_fresh_comments
\* returned an error the call is in its traversal: it starts from the
\* story's child list with empty locals, requests every root child from the
\* network, returns what build_comment_tree makes of the traversal, and
\* returns an error only if the later cache write failed.  After
\* get_fresh_story returned an error for an id, the id is on the list to
\* fetch, exactly as an id the store has no story for, and the call returns
\* an error only if the feed fetch or a later cache write failed.
C7_ReadErrorIsMiss ==
    /\ read_outcome = "err" =>
          /\ pc \in {"loop", "join", "save", "done"}
          /\ pc = "loop" /\ depth = 0 =>
                /\ to_fetch = story_kids
                /\ items = <<>> /\ attempted = {} /\ fetch_log = <<>>
                /\ result.st = "none"
          /\ pc \in {"join", "save", "done"} => RootsRequested
          /\ pc = "done" =>
                /\ result.st = "err" <=> write_outcome = "err"
                /\ result.st = "ok" =>
                      result.comments =
                          build_comment_tree(items, attempted, story_kids)
    /\ s_read_log # <<>> =>
          /\ spc \in {"read", "fetch", "join", "save", "done"}
          /\ s_to_fetch = ReadMisses
          /\ spc \in {"join", "save", "done"} => s_fetch_log = s_to_fetch
          /\ s_result.st = "err" => LastSaveFailed

\* a call whose cache read failed and that returned records from the network
C7_Witness ==
    /\ read_outcome = "err"
    /\ pc = "done"
    /\ result.st = "ok"
    /\ result.comments # <<>>
    /\ fetch_log # <<>>

\* the ids every request of which failed
FailedIds ==
    {id \in Ids : <<id, "err">> \in fetch_outcomes
                  /\ <<id, "ok">> \notin fetch_outcomes}

\* C8: a failed item fetch never fails the call.  fetch_comments_flat
\* returns an error only if the cache write failed; an id whose requests all
\* failed is attempted, not retained, absent from the records and pruned
\* from every record's children, and without a write failure the call
\* returns the records built from what was retrieved.
C8_FetchFailureIsAbsentNode ==
    /\ pc = "done" /\ result.st = "err" => write_outcome = "err"
    /\ pc = "done" /\ write_outcome # "err"
          => result = [st |-> "ok", comments |-> comments]
    /\ pc \in {"save", "done"} =>
          \A id \in FailedIds :
             /\ id \in attempted
             /\ id \notin DOMAIN items
             /\ \A i \in 1..Len(comments) :
                   comments[i].id # id /\ ~Contains(comments[i].kids, id)

\* a call that returned a partial thread: one id failed, another is emitted
C8_Witness ==
    /\ pc = "done"
    /\ result.st = "ok"
    /\ FailedIds # {}
    /\ result.comments # <<>>

\* C9: when fetch_feed_ids fails, fetch_stories has returned the error: no
\* story is returned, no fetch_item was issued, the store was neither read
\* nor written
C9_FeedErrorSurfaced ==
    s_feed = "err" =>
       /\ spc = "done"
       /\ s_result.st = "err"
       /\ s_result.stories = <<>>
       /\ s_ids = <<>> /\ s_to_fetch = <<>>
       /\ s_fetch_log = <<>>
       /\ s_read_log = <<>>
       /\ s_save_log = <<>>

\* a call on a store that holds stories whose feed fetch failed
C9_Witness ==
    /\ s_feed = "err"
    /\ spc = "done"
    /\ s_has_storage /\ s_store # {}

\* C10: the level barrier.  While a request of level N is in flight no
\* request of a later level has been issued, requests are in flight only
\* while their join is awaited, and they are requests of the current level.
C10_LevelBarrier ==
    /\ \A e \in inflight :
          /\ e.level = depth
          /\ \A j \in 1..Len(fetch_log) : fetch_log[j][2] <= e.level
    /\ inflight # {} => pc = "join"

\* a request of level 1 in flight after level 0 has been folded in
C10_Witness ==
    /\ pc = "join"
    /\ depth = 1
    /\ inflight # {}
    /\ \E j \in 1..Len(fetch_log) : fetch_log[j][2] = 0

-----------------------------------------------------------------------------
(* Properties of the fan-out and fan-in *)

\* every id had one outcome in all its requests
FixedOutcomes ==
    \A id \in Ids :
       ~(<<id, "ok">> \in fetch_outcomes /\ <<id, "err">> \in fetch_outcomes)

\* the outcome of the requests for id
OutcomeOf(id) ==
    IF <<id, "ok">> \in fetch_outcomes THEN Ok(upstream[id]) ELSE Err

\* the traversal with every level's results taken in frontier order from
\* the per-id outcomes: the retained items and the attempt set it ends with
RECURSIVE RefTraverse(_, _, _, _)
RefTraverse(tf, d, its, att) ==
    IF tf = <<>> \/ d > max_depth
    THEN [items |-> its, attempted |-> att]
    ELSE LET r == FanInLoop(1, tf, [i \in 1..Len(tf) |-> OutcomeOf(tf[i])],
                            [items |-> its, attempted |-> att,
                             next_fetch |-> <<>>],
                            d < max_depth)
         IN RefTraverse(r.next_fetch, d + 1, r.items, r.attempted)

\* C11: the completion order of a level's fetches does not show in the
\* output.  With one outcome per id, every completed slot of the join holds
\* the outcome of the id at its own position, whatever completed first, and
\* the records of the call are those of the traversal that takes each
\* level's outcomes in frontier order.
C11_CompletionOrderIrrelevant ==
    FixedOutcomes =>
       /\ pc = "join" =>
             \A i \in 1..Len(results) :
                results[i].st # "pending" => results[i] = OutcomeOf(to_fetch[i])
       /\ pc \in {"save", "done"} =>
             LET ref == RefTraverse(story_kids, 0, <<>>, {})
             IN comments = build_comment_tree(ref.items, ref.attempted, story_kids)

\* the second fetch of a level has completed before the first
C11_Witness ==
    /\ pc = "join"
    /\ FixedOutcomes
    /\ Len(results) = 2
    /\ to_fetch[1] # to_fetch[2]
    /\ results[1].st = "pending"
    /\ results[2].st = "ok"

-----------------------------------------------------------------------------
(* Properties of the write-through cache *)

\* the loop condition of the traversal
LoopCondition == to_fetch # <<>> /\ depth <= max_depth

\* C12: the thread entry of the store changes, and a write is recorded, only
\* in the step that ends a call whose traversal has finished: the loop
\* condition is false, no request is in flight, no write was made in the
\* call before, and what is written is the records of the whole traversal.
\* A call that is abandoned before that step has written nothing.
C12_WriteOnceAfterTraversal ==
    [][(cache' # cache \/ (write_outcome' = "ok" /\ write_outcome # "ok"))
          => /\ pc = "save" /\ pc' = "done"
             /\ write_outcome = "none"
             /\ ~LoopCondition
             /\ inflight = {}
             /\ comments = build_comment_tree(items, attempted, story_kids)
             /\ cache' = Some(SaveRows(comments, StoryId))]_vars

\* a second call has written the records of a traversal of two levels over
\* the entry of the first
C12_Witness ==
    /\ pc = "done"
    /\ calls = 2
    /\ write_outcome = "ok"
    /\ depth >= 2
    /\ cache = Some(SaveRows(comments, StoryId))
    /\ comments # <<>>

-----------------------------------------------------------------------------
(* Properties of the depth bound and the attempt set *)

\* the ids a fetch_item request was issued for
RequestedIds == {fetch_log[j][1] : j \in 1..Len(fetch_log)}

\* the ids requested at level l
RequestedAt(l) ==
    {fetch_log[j][1] : j \in {k \in 1..Len(fetch_log) : fetch_log[k][2] = l}}

\* C13: the depth bound.  Requests are issued at levels 0..max_depth only;
\* the frontier after level max_depth is empty, so the children of the items
\* of that level are not enqueued; a request of a level after 0 is for a
\* child of an item retained from the level before; the attempt set holds
\* requested ids only and, once the level is folded in and at the end of the
\* traversal, exactly the requested ids, whether their fetch succeeded or
\* failed.
C13_DepthBound ==
    /\ \A j \in 1..Len(fetch_log) : fetch_log[j][2] \in 0..max_depth
    /\ pc \in {"loop", "join", "save", "done"} =>
          /\ depth <= max_depth + 1
          /\ depth > max_depth /\ pc # "join" => to_fetch = <<>>
          /\ attempted \subseteq RequestedIds
          /\ \A j \in 1..Len(fetch_log) :
                fetch_log[j][2] >= 1 =>
                   \E p \in RequestedAt(fetch_log[j][2] - 1) \cap DOMAIN upstream :
                      /\ ~Tombstoned(upstream[p])
                      /\ Contains(upstream[p].kids, fetch_log[j][1])
    /\ pc \in {"loop", "save", "done"} => attempted = RequestedIds

\* a finished traversal that retained an item at level max_depth whose
\* children were neither requested nor attempted, and that had a failed fetch
C13_Witness ==
    /\ pc = "done"
    /\ \E p \in RequestedAt(max_depth) \cap DOMAIN items :
          /\ items[p].kids # <<>>
          /\ \A k \in Range(items[p].kids) :
                k \notin attempted /\ k \notin RequestedIds
    /\ \E id \in attempted : <<id, "err">> \in fetch_outcomes

-----------------------------------------------------------------------------
(* Properties of tombstoned items *)

\* the ids the gateway returned an item with deleted or dead set for
TombstoneIds ==
    {id \in DOMAIN upstream : upstream[id].deleted \/ upstream[id].dead}

\* C14: an item fetched with deleted or dead set is discarded.  Its id is
\* never a key of the retained map and never the id of a record; every id on
\* a frontier after level 0 is a child of a retained item, so the children
\* of a tombstoned item get there through no tombstone; once its level is
\* folded in its id is in the attempt set, and no record keeps it among its
\* children.
C14_TombstonesDiscarded ==
    /\ TombstoneIds \cap DOMAIN items = {}
    /\ \A i \in 1..Len(comments) : comments[i].id \notin TombstoneIds
    /\ \A i \in 1..Len(result.comments) : result.comments[i].id \notin TombstoneIds
    /\ pc = "loop" /\ depth >= 1 =>
          \A k \in Range(to_fetch) :
             \E p \in RequestedAt(depth - 1) \cap DOMAIN items :
                Contains(upstream[p].kids, k)
    /\ pc \in {"loop", "save", "done"} => TombstoneIds \subseteq attempted
    /\ \A i \in 1..Len(comments) :
          \A k \in Range(comments[i].kids) : k \notin TombstoneIds

\* a finished traversal that met a tombstone with children under an emitted
\* parent: the children were never requested
C14_Witness ==
    /\ pc = "done"
    /\ result.comments # <<>>
    /\ \E id \in TombstoneIds :
          /\ upstream[id].kids # <<>>
          /\ depth > 1
          /\ \E p \in DOMAIN items : Contains(upstream[p].kids, id)
          /\ \A k \in Range(upstream[id].kids) : k \notin RequestedIds

-----------------------------------------------------------------------------
(* Properties of the cache paths of fetch_comments_flat *)

\* the records of the store's thread entry, and the map from id to record
CachedRecords == LoadRows(cache[1], StoryId)

CachedById ==
    [id \in {c.id : c \in CachedRecords} |-> CHOOSE c \in CachedRecords : c.id = id]

\* C15: a cache hit.  When get_fresh_comments returned a payload the call is
\* over, force_refresh was false, no fetch_item was issued, save_comments
\* was not called, and the call returned cached records only: those the
\* walk from the story's child list reaches, in pre-order when the cached
\* children arrays form a forest.
C15_CacheHit ==
    read_outcome = "hit" =>
       /\ pc = "done"
       /\ ~force_refresh /\ has_storage /\ cache # None
       /\ fetch_log = <<>> /\ fetch_outcomes = {} /\ results = <<>>
       /\ write_outcome = "none"
       /\ result.st = "ok"
       /\ Range(result.comments) \subseteq CachedRecords
       /\ IsForest(CachedById, story_kids) =>
             LET walk == PreOrder(CachedById, story_kids, 0)
             IN IdsOf(result.comments) = [i \in 1..Len(walk) |-> walk[i][1]]

\* a second call that was answered from the entry the first call wrote
C15_Witness ==
    /\ read_outcome = "hit"
    /\ pc = "done"
    /\ calls = 2
    /\ Len(result.comments) >= 2
    /\ IsForest(CachedById, story_kids)

\* C16: a forced refresh.  With force_refresh set get_fresh_comments is
\* never called; the call runs the traversal from the story's child list,
\* whatever the store holds, and the records it returns are those built
\* from the traversal and, with a store, those the store's entry now holds.
C16_ForcedRefresh ==
    force_refresh =>
       /\ pc # "cache_read"
       /\ read_outcome = "none"
       /\ pc \in {"join", "save", "done"} => RootsRequested
       /\ pc = "done" /\ result.st = "ok" =>
             /\ result.comments = build_comment_tree(items, attempted, story_kids)
             /\ has_storage =>
                   /\ write_outcome = "ok"
                   /\ cache = Some(SaveRows(result.comments, StoryId))

\* a forced second call that has finished its traversal while the store
\* still holds the entry of the first call
C16_Witness ==
    /\ force_refresh
    /\ calls = 2
    /\ pc = "save"
    /\ cache # None
    /\ fetch_log # <<>>
    /\ comments # <<>>

-----------------------------------------------------------------------------
(* Properties of the linearizer on arbitrary references *)

\* no id occurs twice in cs
DistinctIds(cs) ==
    \A i, j \in 1..Len(cs) : i # j => cs[i].id # cs[j].id

\* the ids the root list and the children arrays reference more than once
RepeatedRefs ==
    LET refs == t_root_kids \o ConcatKids(t_items, DOMAIN t_items)
    IN {refs[i] : i \in {k \in 1..Len(refs) :
                           \E j \in 1..Len(refs) : j # k /\ refs[j] = refs[k]}}

\* C17: no id occurs twice in the output of build_comment_tree or of
\* order_cached_comments, whatever the root list and the children arrays
\* reference: the same id under two parents, twice under one parent, twice
\* in the root list, or in a cycle.
C17_EmittedOnce ==
    /\ tpc \in {"fresh", "stored", "cached"} => DistinctIds(fresh_comments)
    /\ tpc = "cached" => DistinctIds(cached_comments)

\* an input with a cycle and a repeated reference whose ids were emitted on
\* both paths
C17_Witness ==
    /\ tpc = "cached"
    /\ ~Acyclic(t_items)
    /\ \E id \in RepeatedRefs :
          /\ \E i \in 1..Len(fresh_comments) : fresh_comments[i].id = id
          /\ \E i \in 1..Len(cached_comments) : cached_comments[i].id = id

-----------------------------------------------------------------------------
(* The seven-comment thread *)

\* no fetch of the call has failed
NoFetchFailed == \A o \in fetch_outcomes : o[2] # "err"

\* C18: with 1->[2,3], 2->[4,5], 3->[6], 6->[7] upstream, the child list
\* [1], no failed or tombstoned item and a depth bound of at least 3, the
\* traversal and the linearization give the ids [1,2,4,5,3,6,7] with the
\* depths [0,1,2,2,1,2,3], and that is what the call returns
C18_SevenCommentThread ==
    /\ pc \in {"save", "done"} /\ NoFetchFailed =>
          IdDepths(comments) =
             << <<1, 0>>, <<2, 1>>, <<4, 2>>, <<5, 2>>, <<3, 1>>, <<6, 2>>, <<7, 3>> >>
    /\ pc = "done" /\ NoFetchFailed /\ result.st = "ok" =>
          /\ IdsOf(result.comments) = <<1, 2, 4, 5, 3, 6, 7>>
          /\ [i \in 1..Len(result.comments) |-> result.comments[i].depth]
                = <<0, 1, 2, 2, 1, 2, 3>>

\* the call has returned the thread after four levels of fetches, none failed
C18_Witness ==
    /\ pc = "done"
    /\ NoFetchFailed
    /\ result.st = "ok"
    /\ Len(fetch_log) = 7
    /\ depth = 4
    /\ upstream = ItemsOf(ScenarioKids[3])

-----------------------------------------------------------------------------
(* Properties of the depths *)

\* the depths of cs are those of a walk from roots: the first record has
\* depth 0, a record of depth 0 is in roots, a record of a greater depth is
\* among the children of the nearest earlier record one level up, and no
\* record is more than one level below the record before it
WalkDepths(cs, roots) ==
    /\ cs # <<>> => cs[1].depth = 0
    /\ \A i \in 1..Len(cs) :
          IF cs[i].depth = 0
          THEN Contains(roots, cs[i].id)
          ELSE LET up == {k \in 1..(i - 1) : cs[k].depth = cs[i].depth - 1}
               IN /\ up # {}
                  /\ LET j == CHOOSE k \in up : \A l \in up : l <= k
                     IN Contains(cs[j].kids, cs[i].id)
    /\ \A i \in 1..(Len(cs) - 1) : cs[i + 1].depth <= cs[i].depth + 1

\* C19: in the output of build_comment_tree, and in the output of
\* order_cached_comments for the records the fresh path persisted, a
\* record's depth is its distance from the thread root: 0 for the root's
\* direct replies, one more than the record through whose children the walk
\* reached it otherwise, and at most one more than the depth of the record
\* before it.
C19_DepthIsDistance ==
    /\ tpc \in {"fresh", "stored", "cached"} => WalkDepths(fresh_comments, t_root_kids)
    /\ tpc = "cached" => WalkDepths(cached_comments, t_root_kids)

\* an output on both paths with a record two levels down and a later record
\* higher up
C19_Witness ==
    /\ tpc = "cached"
    /\ \E i \in 1..Len(cached_comments) : cached_comments[i].depth = 2
    /\ \E i \in 1..(Len(cached_comments) - 1) :
          cached_comments[i + 1].depth < cached_comments[i].depth
    /\ IdDepths(fresh_comments) = IdDepths(cached_comments)

\* the records of the stored thread entry, the map from id to record, and
\* the walk over them from the root list with the depths the walk carries
StoredRecords == LoadRows(t_rows, StoryId)

StoredById ==
    [id \in {c.id : c \in StoredRecords} |-> CHOOSE c \in StoredRecords : c.id = id]

StoredWalk == build_tree(StoredById, t_root_kids, "from_item")

-----------------------------------------------------------------------------
(* Properties of the walk's coverage *)

\* the ids the walk visits: those of the root list and the children of the
\* visited ids that have a retained item
RECURSIVE VisitedFrom(_)
VisitedFrom(S) ==
    LET next == S \cup UNION {Range(t_items[x].kids) : x \in S \cap DOMAIN t_items}
    IN IF next = S THEN S ELSE VisitedFrom(next)

Visited == VisitedFrom(Range(t_root_kids))

\* the children of the retained item id after the pruning step
FilteredKids(id) ==
    LET keep(k) == k \notin t_attempted \/ k \in DOMAIN t_items
    IN SelectSeq(t_items[id].kids, keep)

-----------------------------------------------------------------------------
(* Properties of the thread entry's freshness *)

LastVersion == MIGRATIONS[Len(MIGRATIONS)].version

\* C23: a run of run_migrations on a database where the run before it
\* succeeded returns Ok, executes the SQL of no migration and leaves the rows
\* of _schema as they were when it began.
C23_Idempotent ==
    (m_prev_result = "ok" /\ mpc \in {"loop", "done"}) =>
        /\ m_result # "err"
        /\ (mpc = "done" => m_result = "ok")
        /\ m_run_applied = <<>>
        /\ m_schema = m_before

\* a second run on a database that the first run migrated from fresh is over
C23_Witness ==
    /\ m_prev_result = "ok"
    /\ mpc = "done"
    /\ m_runs >= 2
    /\ m_result = "ok"
    /\ Len(m_applied) = Len(MIGRATIONS)

\* the versions of MIGRATIONS in the order of the list
AllVersions == [i \in 1..Len(MIGRATIONS) |-> MIGRATIONS[i].version]

\* s is strictly ascending
Ascending(s) == \A i, j \in 1..Len(s) : i < j => s[i] < s[j]

\* C24: when a run of run_migrations returned Ok, on a fresh database or on
\* one left by earlier runs, _schema holds every version of MIGRATIONS (one
\* row each, version being the primary key), its MAX(version) is the version
\* of the last entry of MIGRATIONS, and the SQL of the migrations was executed
\* once each in ascending order of version.
C24_AllVersionsRecorded ==
    /\ Ascending(m_run_applied)
    /\ (mpc = "done" /\ m_result = "ok") =>
        /\ m_schema = Range(AllVersions)
        /\ LastVersion \in m_schema
        /\ \A v \in m_schema : v <= LastVersion
        /\ m_applied = AllVersions
        /\ m_before \cup Range(m_run_applied) = m_schema
        /\ m_before \cap Range(m_run_applied) = {}

\* a run that found some of the migrations applied and applied the rest
C24_Witness ==
    /\ mpc = "done"
    /\ m_result = "ok"
    /\ m_before # {}
    /\ Len(m_run_applied) >= 2
    /\ m_schema = Range(AllVersions)

(***************************************************************************)
(* Properties of compute_tree_context *)
(***************************************************************************)

\* the depth of the comment at visible position i
VisibleDepth(i) == c_depths[c_visible[i]]

\* after visible position i a comment of depth k comes before any comment
\* of a smaller depth
SiblingAhead(i, k) ==
    \E j \in (i + 1)..Len(c_visible) :
        /\ VisibleDepth(j) = k
        /\ \A l \in (i + 1)..(j - 1) : VisibleDepth(l) >= k

\* C25: for the visible comment at position i, of depth d,
\* compute_tree_context returns a vector of length d + 1 whose entry k
\* (0 <= k <= d) is true exactly when, among the visible comments after
\* position i in order, one of depth k comes before any of depth less than k.
C25_TreeContext ==
    cpc = "done" =>
        /\ Len(c_context) = Len(c_visible)
        /\ \A i \in 1..Len(c_visible) :
            /\ Len(c_context[i]) = VisibleDepth(i) + 1
            /\ \A k \in 0..VisibleDepth(i) :
                c_context[i][k + 1] <=> SiblingAhead(i, k)

\* a result with a true entry, and with an entry that is false although a
\* comment of its depth follows, a shallower one coming first
C25_Witness ==
    /\ cpc = "done"
    /\ \E i \in 1..Len(c_visible) : \E k \in 0..VisibleDepth(i) :
        c_context[i][k + 1]
    /\ \E i \in 1..Len(c_visible) : \E k \in 0..VisibleDepth(i) :
        /\ ~c_context[i][k + 1]
        /\ \E j \in (i + 1)..Len(c_visible) : VisibleDepth(j) = k

(***************************************************************************)
(* Properties of the requests of a traversal *)
(***************************************************************************)

\* the children of the results of the awaited level that are Ok and not
\* tombstoned, in frontier order, from position i on
RECURSIVE RetainedKidsFrom(_)
RetainedKidsFrom(i) ==
    IF i > Len(results) THEN <<>>
    ELSE (IF results[i].st = "ok"
             /\ ~(results[i].item.deleted \/ results[i].item.dead)
          THEN results[i].item.kids
          ELSE <<>>) \o RetainedKidsFrom(i + 1)

\* the requests a fan-out over the frontier adds to the log: one per position
OneRequestEach == [i \in 1..Len(to_fetch) |-> <<to_fetch[i], depth>>]

\* C26: within one traversal a frontier entry causes exactly one fetch_item
\* request, whatever its outcome.  Requests are issued by the fan-out only,
\* one per position of the frontier; the completion of a request, failed or
\* not, issues none; and the frontier of the next level is made of the
\* children of the level's retained items only, so that a failed id is on it
\* only where a retained item names it as a child.
C26_OneRequestPerEntry ==
    [][ /\ (fetch_log' # fetch_log) =>
              /\ pc = "loop" /\ pc' = "join"
              /\ fetch_log' = fetch_log \o OneRequestEach
              /\ inflight' \ inflight =
                    {[pos |-> i, id |-> to_fetch[i], level |-> depth] :
                        i \in 1..Len(to_fetch)}
        /\ (pc = "loop" /\ pc' = "join") => fetch_log' = fetch_log \o OneRequestEach
        /\ (inflight' # inflight /\ pc = "join" /\ pc' = "join") =>
              /\ Cardinality(inflight') = Cardinality(inflight) - 1
              /\ to_fetch' = to_fetch
        /\ (pc = "join" /\ pc' = "loop") =>
              to_fetch' = (IF depth < max_depth THEN RetainedKidsFrom(1) ELSE <<>>)
      ]_vars

\* a level was fanned out after a request of the level before it failed,
\* and the failed id is not on its frontier
C26_Witness ==
    /\ pc = "join"
    /\ depth >= 1
    /\ \E j \in 1..Len(fetch_log) :
          /\ fetch_log[j][2] = depth - 1
          /\ <<fetch_log[j][1], "err">> \in fetch_outcomes
          /\ ~Contains(to_fetch, fetch_log[j][1])
    /\ Len(fetch_log) >= 3

(***************************************************************************)
(* Properties of the traversal's termination *)
(***************************************************************************)

\* C27: the traversal loop ends after at most max_depth + 1 levels on every
\* input, cycles and repeated ids among the children included, when every
\* issued request completes.  No level is fanned out twice and none beyond
\* max_depth; the loop is left with fewer than max_depth + 1 levels done
\* only on an empty frontier, an empty frontier always ends it and a
\* non-empty one within the bound never does; and a call in the loop
\* leaves it.
C27_Terminates ==
    /\ [](pc \in {"loop", "join"} => depth <= max_depth + 1)
    /\ [](pc = "join" => depth <= max_depth)
    /\ [][ /\ (pc = "loop" /\ pc' = "join") => RequestedAt(depth) = {}
           /\ (pc = "loop" /\ pc' \in {"save", "done"}) =>
                 /\ depth <= max_depth + 1
                 /\ (depth <= max_depth => to_fetch = <<>>)
           /\ (pc = "loop" /\ to_fetch = <<>>) => pc' # "join"
           /\ (pc = "loop" /\ to_fetch # <<>> /\ depth <= max_depth) =>
                 pc' \notin {"save", "done"}
         ]_vars
    /\ (pc \in {"loop", "join"}) ~> (pc \in {"save", "done"})

\* a traversal over children that hold a cycle has ended, max_depth + 1
\* levels done
C27_Witness ==
    /\ pc \in {"save", "done"}
    /\ depth = max_depth + 1
    /\ max_depth >= 1
    /\ ~Acyclic(upstream)
    /\ fetch_log # <<>>

(***************************************************************************)
(* Properties of the linearizer's first visits *)
(***************************************************************************)

\* the pre-order walk of the references in todo, all at depth d, that visits
\* an id at its first reference only: acc holds the <<id, depth>> pairs
\* visited so far and the set of their ids
RECURSIVE FirstVisit(_, _, _)
FirstVisit(todo, d, acc) ==
    IF todo = <<>> THEN acc
    ELSE LET x == Head(todo)
         IN IF x \in acc.seen \/ x \notin DOMAIN t_items
            THEN FirstVisit(Tail(todo), d, acc)
            ELSE FirstVisit(Tail(todo), d,
                            FirstVisit(t_items[x].kids, d + 1,
                                       [out |-> Append(acc.out, <<x, d>>),
                                        seen |-> acc.seen \cup {x}]))

FirstVisits == FirstVisit(t_root_kids, 0, [out |-> <<>>, seen |-> {}]).out

\* C28: the linearizer ends on every input, cyclic and repeated references
\* included, with at most one record per retained item, and its output is
\* the pre-order walk of first visits: an id referenced more than once has
\* the position and the depth of its first visit, its later references
\* being skipped.
C28_FirstVisitWins ==
    /\ tpc \in {"fresh", "stored", "cached"} =>
          /\ IdDepths(fresh_comments) = FirstVisits
          /\ Len(fresh_comments) <= Cardinality(DOMAIN t_items)
    /\ tpc = "cached" => IdDepths(cached_comments) = FirstVisits

\* an output on both paths for an input with a cycle in which a root reply
\* was emitted below another record, where the walk met it first
C28_Witness ==
    /\ tpc = "cached"
    /\ ~Acyclic(t_items)
    /\ \E i \in 1..Len(cached_comments) :
          /\ cached_comments[i].depth >= 1
          /\ Contains(t_root_kids, cached_comments[i].id)
          /\ cached_comments[i].id \in RepeatedRefs

(***************************************************************************)
(* Properties of the traversal's shared state *)
(***************************************************************************)

\* every result of the awaited level has arrived
LevelComplete ==
    /\ inflight = {}
    /\ \A i \in 1..Len(results) : results[i].st # "pending"

\* C29: the retained map and the attempt set do not change while a request
\* of the current level is in flight, nor in a step that issues or completes
\* a request; the only step that changes them is the fold of the call itself
\* after the join, when every request of the level has completed.
C29_SingleWriterAfterJoin ==
    [][ /\ (inflight # {} \/ inflight' # inflight) =>
              /\ items' = items
              /\ attempted' = attempted
        /\ (items' # items \/ attempted' # attempted) =>
              /\ pc = "join" /\ pc' = "loop"
              /\ LevelComplete
              /\ Len(results) = Len(to_fetch)
              /\ attempted' = attempted \cup Range(to_fetch)
              /\ DOMAIN items \subseteq DOMAIN items'
      ]_vars

\* the second level has been folded into a non-empty map after one of its
\* requests completed before another
C29_Witness ==
    /\ pc = "loop"
    /\ depth = 2
    /\ Cardinality(DOMAIN items) >= 2
    /\ Cardinality(attempted) >= 3
    /\ Len(fetch_log) >= 3

(***************************************************************************)
(* Properties of the depths of a fresh traversal *)
(***************************************************************************)

\* the call returned the records of a traversal
ReturnedFresh == pc = "done" /\ result.st = "ok" /\ read_outcome # "hit"

\* the levels at which a request for id was issued
FetchLevels(id) ==
    {fetch_log[j][2] : j \in {k \in 1..Len(fetch_log) : fetch_log[k][1] = id}}

\* C30 as stated: whatever the children arrays hold, every record a fresh
\* traversal returns has a depth of at most max_depth, and its depth is a
\* level at which its id was fetched
C30_DepthIsFetchLevel ==
    ReturnedFresh =>
        \A i \in 1..Len(result.comments) :
            /\ result.comments[i].depth <= max_depth
            /\ result.comments[i].depth \in FetchLevels(result.comments[i].id)

\* C30, amended: when no identifier occurs more than once among the child
\* references of the input (the story's child list and the children arrays
\* of the fetched items, taken together), every record a fresh traversal
\* returns has a depth of at most max_depth, and its depth is the level at
\* which its id was fetched
C30_ForestDepthIsFetchLevel ==
    (ReturnedFresh /\ IsForest(upstream, story_kids)) =>
        \A i \in 1..Len(result.comments) :
            /\ result.comments[i].depth <= max_depth
            /\ FetchLevels(result.comments[i].id) = {result.comments[i].depth}

\* a traversal of a forest returned a record of level max_depth under a
\* record of the level before
C30_Witness ==
    /\ ReturnedFresh
    /\ IsForest(upstream, story_kids)
    /\ max_depth >= 1
    /\ \E i \in 1..Len(result.comments) : result.comments[i].depth = max_depth
    /\ Len(result.comments) >= 2

(***************************************************************************)
(* Properties of the persisted parent ids *)
(***************************************************************************)

\* the row persisted for the record with this id
RowOf(id) == CHOOSE r \in t_rows : r.id = id

\* the id of the record under which the walk emitted position i of cs: the
\* nearest preceding record whose depth is one less; None at depth 0
WalkParent(cs, i) ==
    LET up == {k \in 1..(i - 1) : cs[k].depth = cs[i].depth - 1}
    IN IF cs[i].depth = 0 \/ up = {} THEN None
       ELSE Some(cs[CHOOSE k \in up : \A l \in up : l <= k].id)

\* every persisted row has the walk's parent
ParentsAreWalkParents ==
    \A i \in 1..Len(fresh_comments) :
        /\ \E r \in t_rows : r.id = fresh_comments[i].id
        /\ RowOf(fresh_comments[i].id).parent_id = WalkParent(fresh_comments, i)
        /\ (RowOf(fresh_comments[i].id).parent_id = None
               <=> fresh_comments[i].depth = 0)

\* C31 as stated: for every record the thread write-through persists, the
\* stored parent id is absent exactly when the record has depth 0 and is
\* otherwise the id of the nearest preceding record whose depth is one less
C31_ParentIsWalkParent ==
    tpc \in {"stored", "cached"} => ParentsAreWalkParents

\* C31, amended: the same when no identifier occurs more than once among the
\* child references of the input (the root list and the children arrays of
\* the retained items, taken together)
C31_ForestParentIsWalkParent ==
    (tpc \in {"stored", "cached"} /\ IsForest(t_items, t_root_kids))
        => ParentsAreWalkParents

\* the persisted rows of a forest with a record two levels down and a later
\* root reply
C31_Witness ==
    /\ tpc = "stored"
    /\ IsForest(t_items, t_root_kids)
    /\ \E i \in 1..Len(fresh_comments) : fresh_comments[i].depth = 2
    /\ \E i \in 2..Len(fresh_comments) : fresh_comments[i].depth = 0
    /\ Cardinality(t_rows) >= 3

(***************************************************************************)
(* Properties of fetch_stories_by_ids *)
(***************************************************************************)

\* fetch_stories_by_ids returned Ok
StoriesReturned == spc = "done" /\ s_feed = "ok" /\ s_result.st = "ok"

\* the ids of the returned stories, in order
ReturnedIds == [i \in 1..Len(s_result.stories) |-> s_result.stories[i].id]

\* the last position of id in the requested list
LastPosition(id) ==
    CHOOSE p \in 1..Len(s_ids) :
        s_ids[p] = id /\ \A q \in (p + 1)..Len(s_ids) : s_ids[q] # id

\* the store served id
ServedFromCache(id) == \E j \in 1..Len(s_read_log) : s_read_log[j] = <<id, "hit">>

\* a fetch of id returned a story
ServedFromNetwork(id) ==
    \E j \in 1..Len(s_to_fetch) :
        /\ j <= Len(s_results)
        /\ s_to_fetch[j] = id
        /\ s_results[j] = "story"

\* the number of fetches that returned a story
StoriesFetched == Cardinality({j \in 1..Len(s_results) : s_results[j] = "story"})

\* the number of reads the store answered
StoriesHit ==
    Cardinality({j \in 1..Len(s_read_log) : s_read_log[j][2] = "hit"})

\* some save_story failed
SomeSaveFailed == \E j \in 1..Len(s_save_log) : s_save_log[j][2] = "err"

\* C32: fetch_stories_by_ids returns the stories in the order of their ids
\* in the requested list, whichever ids the store served and whichever the
\* network, and in whatever order the fetches completed; it returns stories
\* of requested ids only, one per cache hit and per fetch that returned a
\* story; an id whose fetch failed is missing from the result, and the
\* failure of a fetch is no error of the call.
C32_RequestOrder ==
    /\ StoriesReturned =>
          /\ \A i \in 1..Len(ReturnedIds) : Contains(s_ids, ReturnedIds[i])
          /\ \A i, j \in 1..Len(ReturnedIds) :
                i < j => LastPosition(ReturnedIds[i]) <= LastPosition(ReturnedIds[j])
          /\ Len(ReturnedIds) = StoriesHit + StoriesFetched
          /\ \A id \in Range(s_ids) :
                Contains(ReturnedIds, id)
                   <=> (ServedFromCache(id) \/ ServedFromNetwork(id))
          /\ Len(s_ids) = Cardinality(Range(s_ids)) =>
                /\ IsSubSeq(ReturnedIds, s_ids)
                /\ ReturnedIds = SelectSeq(s_ids,
                      LAMBDA id : ServedFromCache(id) \/ ServedFromNetwork(id))
    /\ (spc = "done" /\ s_feed = "ok" /\ ~SomeSaveFailed) => s_result.st = "ok"

\* a call returned a story from the network before one from the store, an id
\* between them missing because its fetch failed
C32_Witness ==
    /\ StoriesReturned
    /\ Len(s_ids) = 3
    /\ Cardinality(Range(s_ids)) = 3
    /\ ServedFromNetwork(s_ids[1])
    /\ \E j \in 1..Len(s_to_fetch) : s_to_fetch[j] = s_ids[2] /\ s_results[j] = "err"
    /\ ServedFromCache(s_ids[3])
    /\ ReturnedIds = <<s_ids[1], s_ids[3]>>

(***************************************************************************)
(* Properties of fetch_stories *)
(***************************************************************************)

\* the positions of the page in the listing, counted from 1: the zero-based
\* positions [30 * page, min(30 * page + 30, n))
PagePositions ==
    {p \in 1..Len(s_listing) : 30 * s_page < p /\ p <= 30 * s_page + 30}

\* C33: fetch_stories(feed, page) returns only stories whose ids are at the
\* positions [30 * page, min(30 * page + 30, n)) of the n ids of the
\* listing, at most 30 of them, and requests and reads no id outside these
\* positions; when 30 * page >= n it returns an empty sequence without any
\* item fetch or cache access.
C33_PageSlice ==
    (s_feed = "ok") =>
        /\ \A j \in 1..Len(s_fetch_log) :
              \E p \in PagePositions : s_listing[p] = s_fetch_log[j]
        /\ \A j \in 1..Len(s_read_log) :
              \E p \in PagePositions : s_listing[p] = s_read_log[j][1]
        /\ (spc = "done" /\ s_result.st = "ok") =>
              /\ Len(s_result.stories) <= 30
              /\ \A i \in 1..Len(s_result.stories) :
                    \E p \in PagePositions : s_listing[p] = s_result.stories[i].id
        /\ 30 * s_page >= Len(s_listing) =>
              /\ spc = "done"
              /\ s_result = [st |-> "ok", stories |-> <<>>]
              /\ s_fetch_log = <<>>
              /\ s_read_log = <<>>
              /\ s_save_log = <<>>

\* the second page of a listing that goes on after it was returned, some of
\* it from the store and some from the network
C33_Witness ==
    /\ spc = "done"
    /\ s_feed = "ok"
    /\ s_result.st = "ok"
    /\ s_page = 1
    /\ Len(s_listing) > 60
    /\ Len(s_ids) = 30
    /\ s_read_log # <<>>
    /\ s_fetch_log # <<>>
    /\ Len(s_result.stories) >= 10

(***************************************************************************)
(* Properties of the story cache *)
(***************************************************************************)

\* the positions of the requested list whose read the store did not answer
\* with a fresh story
NotServedPositions ==
    {p \in 1..Len(s_ids) : p <= Len(s_read_log) /\ s_read_log[p][2] # "hit"}

\* the entries of the requested list a fetch is due for, in order
RECURSIVE DueFrom(_)
DueFrom(p) ==
    IF p > Len(s_ids) THEN <<>>
    ELSE (IF s_force \/ ~s_has_storage \/ p \in NotServedPositions
          THEN <<s_ids[p]>> ELSE <<>>) \o DueFrom(p + 1)

\* C34: in fetch_stories_by_ids a fetch is issued for an entry of the
\* requested list exactly when force_refresh is set, no store is configured
\* or the store's read for it gave no fresh story (miss, stale, or error);
\* the store is read once per entry, in order, and not at all under
\* force_refresh or without a store; an entry served from the store is not
\* fetched; and when the call returns Ok with a store configured, every
\* story fetched from the network has been saved to it.
C34_FetchIffNotServed ==
    (s_feed = "ok" /\ s_ids # <<>>) =>
        /\ (s_force \/ ~s_has_storage) => s_read_log = <<>>
        /\ \A p \in 1..Len(s_read_log) :
              /\ p <= Len(s_ids)
              /\ s_read_log[p][1] = s_ids[p]
              /\ s_read_log[p][2] = "hit" => s_ids[p] \in s_store
        /\ spc \in {"read", "fetch"} => s_fetch_log = <<>>
        /\ spc \in {"join", "save"} => s_fetch_log = DueFrom(1)
        /\ spc = "done" =>
              /\ s_fetch_log = DueFrom(1)
              /\ (~s_force /\ s_has_storage) => Len(s_read_log) = Len(s_ids)
        /\ Len(s_ids) = Cardinality(Range(s_ids)) =>
              \A p \in 1..Len(s_read_log) :
                 s_read_log[p][2] = "hit" => ~Contains(s_fetch_log, s_ids[p])
        /\ (spc = "done" /\ s_result.st = "ok" /\ s_has_storage) =>
              \A j \in 1..Len(s_results) :
                 s_results[j] = "story" =>
                    /\ s_to_fetch[j] \in s_store
                    /\ Contains(s_save_log, <<s_to_fetch[j], "ok">>)

\* a call with a store returned Ok after a hit, a miss and a read error:
\* the two ids not served were fetched and a fetched story was saved
C34_Witness ==
    /\ spc = "done"
    /\ s_result.st = "ok"
    /\ s_has_storage /\ ~s_force
    /\ Len(s_ids) = 3
    /\ \E p \in 1..3 : s_read_log[p][2] = "hit"
    /\ \E p \in 1..3 : s_read_log[p][2] = "miss"
    /\ \E p \in 1..3 : s_read_log[p][2] = "err"
    /\ Len(s_fetch_log) = 2
    /\ s_save_log # <<>>

(***************************************************************************)
(* Properties of a failed migration *)
(***************************************************************************)

\* the run returned the Migration error of version v
FailedAt(err, v) == err = <<[kind |-> "Migration", version |-> v]>>

\* C35: when the SQL of a migration fails, run_migrations returns the
\* Migration error of that version, has executed the SQL of no later
\* migration, has recorded no row for that or a later version and has kept
\* the rows of the earlier versions; the next run begins with the failed
\* version.
C35_FailureStopsAndResumes ==
    /\ (mpc = "done" /\ m_result = "err") =>
          LET v == MIGRATIONS[m_idx].version
          IN /\ FailedAt(m_error, v)
             /\ \A w \in Range(m_run_applied) : w < v
             /\ m_schema = {w \in Range(AllVersions) : w < v}
             /\ m_before \subseteq m_schema
    /\ \A v \in Range(AllVersions) :
          (FailedAt(m_prev_error, v) /\ mpc \in {"loop", "done"}) =>
             /\ m_before = {w \in Range(AllVersions) : w < v}
             /\ \A w \in Range(AllVersions) :
                   ShouldApply(w, m_current) <=> w >= v
             /\ m_run_applied # <<>> => m_run_applied[1] = v
             /\ \A w \in Range(AllVersions) : FailedAt(m_error, w) => w >= v

\* a run applied a migration and failed at the next; the run after it
\* applied the failed version first and the rest after it
C35_Witness ==
    /\ mpc = "done"
    /\ m_result = "ok"
    /\ \E v \in Range(AllVersions) :
          /\ FailedAt(m_prev_error, v)
          /\ v >= 2
          /\ m_before # {}
          /\ Len(m_run_applied) >= 2
          /\ m_run_applied[1] = v

(***************************************************************************)
(* Properties of the record of applied migrations *)
(***************************************************************************)

\* C36: whenever run_migrations has returned, with Ok or with any error, the
\* migrations whose SQL was executed on the database are those whose version
\* _schema records, and none was executed twice.
C36_AppliedIffRecorded ==
    mpc = "done" =>
        /\ Range(m_applied) = m_schema
        /\ \A i, j \in 1..Len(m_applied) : i # j => m_applied[i] # m_applied[j]

(***************************************************************************)
(* run_tui and the terminal                                                *)
(***************************************************************************)

\* C37: whenever run_tui has returned after tui::init succeeded, tui::restore
\* was called before the return.
C37_RestoredOnReturn ==
    (rpc = "returned" /\ r_init_ok) => r_restore_called

(***************************************************************************)
(* EventHandler::next                                                      *)
(***************************************************************************)

\* a stream item that is neither a pressed key, a mouse event nor a resize
Discarded(polled) ==
    \/ polled.item \in {"SomeErr", "None"}
    \/ /\ polled.item = "SomeOk"
       /\ \/ polled.event.type \in {"FocusGained", "FocusLost", "Paste"}
          \/ polled.event.type = "Key" /\ polled.event.kind # "Press"

LastPolled == e_polled[Len(e_polled)]

\* C38: while next waits, everything the stream yielded was a key event of
\* a kind other than Press, an unrecognised event, a stream error or the end
\* of the stream; and when next has returned, it returned Tick because the
\* tick completed, or Key, Mouse or Resize because the last item of the
\* stream was a pressed key (delivered as it came), a mouse event or a
\* resize, every item before it having been discarded.
C38_OnlyPressedKeysDelivered ==
    /\ epc = "waiting" =>
          /\ e_returned = NoReturn
          /\ \A i \in 1..Len(e_polled) : Discarded(e_polled[i])
    /\ epc = "returned" =>
          /\ e_returned.ev \in {"Tick", "Key", "Mouse", "Resize"}
          /\ (e_returned.ev = "Tick") <=> e_ticked
          /\ e_ticked => \A i \in 1..Len(e_polled) : Discarded(e_polled[i])
          /\ ~e_ticked =>
                /\ e_polled # <<>>
                /\ \A i \in 1..(Len(e_polled) - 1) : Discarded(e_polled[i])
                /\ LastPolled.item = "SomeOk"
                /\ LastPolled.event.type = e_returned.ev
                /\ e_returned.ev = "Key" =>
                      /\ LastPolled.event.kind = "Press"
                      /\ e_returned.key = LastPolled.event

\* a key release and then a key press arrive: the call returns the press
C38_Witness ==
    /\ epc = "returned"
    /\ e_returned.ev = "Key"
    /\ Len(e_polled) = 2
    /\ e_polled[1].item = "SomeOk"
    /\ e_polled[1].event = [type |-> "Key", kind |-> "Release"]

====
